---- MODULE Spec2Model ----
(***************************************************************************)
(* Counter and analytics behaviour of the royalbird-be REST backend:       *)
(* like / unlike / hasLiked on Comic and BlogPost documents, the view      *)
(* counters, the Genre / Tag comicCount hooks, the trend computation, the  *)
(* blog slug generator, the tag cloud, and the public reads and lists.     *)
(*                                                                         *)
(* The document store is MongoDB through Mongoose.  A handler that calls   *)
(* findById gets a private in-memory copy; doc.save() validates the copy   *)
(* (schema validators such as min: 0) and then sends ONE atomic update     *)
(* holding only the modified paths: a scalar assignment is a $set of the   *)
(* new value, Array.push is a $push of the pushed element, Array.splice    *)
(* is a $set of the whole array guarded by the document version __v (a     *)
(* stale copy makes save() throw VersionError).  $push and the array $set  *)
(* both increment __v.  Since __v only grows, "the copy's __v equals the   *)
(* stored __v" is tracked per request in flight by the flag `stale`.       *)
(***************************************************************************)
EXTENDS Integers, Sequences, FiniteSets, Bags, TLC

\* ---------------------------------------------------------------- bounds
MaxReq     == 2   \* requests in flight at the same time
MaxLikes   == 1   \* a like request starts only while the loaded likes < MaxLikes
MaxLikedBy == 2   \* a like request starts only while likedBy can still grow
MaxViews   == 3   \* view requests counted per document
MaxCount   == 3   \* cap of Genre / Tag comicCount
MaxN       == 10  \* largest period count fed to the trend computation
MaxDays    == 14  \* longest daily series fed to calculateTrendFromDailyData
MaxPosts   == 2   \* blog posts created in the slug specifications
MaxNow     == 16  \* the clock stops here, past one whole lock
MaxLogins  == 2   \* login requests in flight at the same time

\* ------------------------------------------------------------ identifiers
Users    == {"u1", "u2"}
NoUser   == ""                 \* a request body without userId
ComicIds == {"c1", "c2"}
BlogIds  == {"b1"}
Ids      == ComicIds \cup BlogIds
Genres   == {"g1", "g2"}
Tags     == {"t1"}

\* HTTP status of a response
Ok           == "200"
BadRequest   == "400"   \* routing-controllers BadRequestError
Forbidden    == "403"   \* ForbiddenError
NotFound     == "404"   \* NotFoundError
ServerError  == "500"   \* any other error thrown by a handler

VARIABLES
  docs,        \* the Comic and BlogPost collections: id -> document (NoDoc: none)
  genreCount,  \* Genre.comicCount
  tagCount,    \* Tag.comicCount
  req,         \* requests in flight: the bag of the updates their saves will send
  last,        \* the response of the handler that completed last
  viewed,      \* history: view requests answered 200, per document
  current,     \* trend inputs: count over the trailing window
  previous,    \*               count over the preceding window
  trend,       \* trend output of the function applied last
  dailyData,   \* trend input: the values of a daily series, oldest first
  posts,       \* the BlogPost collection as the slug code sees it, oldest first
  inserts,     \* createBlogPost requests between the slug probe and the insert
  probe,       \* the call of generateUniqueSlug by the last blog request, if any
  cloud,       \* the last response of getTagCloud, with its query
  account,     \* the User document that the login requests address
  now,         \* the clock, in minutes
  logins,      \* login requests between User.findOne and their updateOne
  streak,      \* history: failed password attempts in a row
  taxa,        \* the Tag and Genre collections of the private routes
  fault,       \* the error handed to AppErrorHandler.error
  res,         \* the response object of that request
  subs,        \* the EmailSubscriber collection: email -> document
  mail         \* the verification emails sent

vars == <<docs, genreCount, tagCount, req, last, viewed, current, previous, trend,
          dailyData, posts, inserts, probe, cloud, account, now, logins, streak,
          taxa, fault, res, subs, mail>>

\* ------------------------------------------------------------- documents
\* The counter-relevant fields of IComic / IBlogPost.  deletedAt is "missing"
\* (field absent), "null" or "date".
NoDoc ==
  [kind |-> "none", status |-> "draft", deletedAt |-> "missing", likes |-> 0,
   likedBy |-> <<>>, views |-> 0, genres |-> {}, tags |-> {}]

NewComic(status, genres, tags) ==
  [kind |-> "Comic", status |-> status, deletedAt |-> "missing", likes |-> 0,
   likedBy |-> <<>>, views |-> 0, genres |-> genres, tags |-> tags]

NewBlogPost(status) ==
  [kind |-> "BlogPost", status |-> status, deletedAt |-> "null", likes |-> 0,
   likedBy |-> <<>>, views |-> 0, genres |-> {}, tags |-> {}]

\* Model.findById(id): the document, or null
findById(id) == docs[id]
Found(d)     == d.kind # "none"

\* ------------------------------------------------------ array primitives
\* Array.prototype.includes
Includes(s, u) == \E i \in 1..Len(s) : s[i] = u

\* Array.prototype.indexOf, 1-based; 0 stands for JavaScript's -1
IndexOf(s, u) ==
  IF Includes(s, u)
    THEN CHOOSE i \in 1..Len(s) : s[i] = u /\ \A j \in 1..(i - 1) : s[j] # u
    ELSE 0

\* Array.prototype.splice(index, 1)
Splice(s, i) == SubSeq(s, 1, i - 1) \o SubSeq(s, i + 1, Len(s))

Count(s, u) == Cardinality({i \in 1..Len(s) : s[i] = u})

\* --------------------------------------------------------- model methods
\* What a method leaves to save(): the modified paths of the in-memory copy.
NoDelta == [op |-> "none", user |-> NoUser, likes |-> 0, likedBy |-> <<>>, views |-> 0]

\* like without the includes() check
likeAlways(d, u) ==
  [ret |-> TRUE,
   delta |-> [NoDelta EXCEPT !.op = "push", !.user = u, !.likes = d.likes + 1]]

\* <Schema>.methods.like: push and count only when userId is not yet in likedBy
like(d, u) ==
  IF ~Includes(d.likedBy, u)
    THEN [ret |-> TRUE,
          delta |-> [NoDelta EXCEPT !.op = "push", !.user = u, !.likes = d.likes + 1]]
    ELSE [ret |-> FALSE, delta |-> NoDelta]

\* unlike that forgets this.likes -= 1
unlikeNoDecrement(d, u) ==
  LET index == IndexOf(d.likedBy, u) IN
  IF index > 0
    THEN [ret |-> TRUE,
          delta |-> [NoDelta EXCEPT !.op = "splice", !.user = u,
                                    !.likedBy = Splice(d.likedBy, index),
                                    !.likes = d.likes]]
    ELSE [ret |-> FALSE, delta |-> NoDelta]

\* <Schema>.methods.unlike: splice and decrement only when userId is in likedBy
unlike(d, u) ==
  LET index == IndexOf(d.likedBy, u) IN
  IF index > 0
    THEN [ret |-> TRUE,
          delta |-> [NoDelta EXCEPT !.op = "splice", !.user = u,
                                    !.likedBy = Splice(d.likedBy, index),
                                    !.likes = d.likes - 1]]
    ELSE [ret |-> FALSE, delta |-> NoDelta]

\* hasLiked that looks at the counter instead of the list
hasLikedByCount(d, u) == d.likes > 0

\* <Schema>.methods.hasLiked
hasLiked(d, u) == Includes(d.likedBy, u)

\* incrementViews that adds 2
incrementViewsTwice(d) == [NoDelta EXCEPT !.op = "views", !.views = d.views + 2]

\* <Schema>.methods.incrementViews: this.views += 1, then save()
incrementViews(d) == [NoDelta EXCEPT !.op = "views", !.views = d.views + 1]

\* ComicSchema.methods.softDelete: this.deletedAt = new Date(), then save()
softDelete(d) == [NoDelta EXCEPT !.op = "softDelete"]

\* deleteBlogPost: post.deletedAt = new Date(); post.status = 'archived'; save()
archive(d) == [NoDelta EXCEPT !.op = "archive"]

\* ------------------------------------------------------------------ save
\* a schema without min: 0
NoMinValidator(n) == TRUE

\* likes: { type: Number, default: 0, min: 0 }: the validator save() runs
MinValidator(n) == n >= 0

\* Whether save() of `delta` passes validation
Valid(delta) ==
  /\ delta.op \in {"push", "splice"} => MinValidator(delta.likes)
  /\ delta.op = "views" => MinValidator(delta.views)

\* Whether the update is guarded by the version key (array $set)
Versioned(delta) == delta.op = "splice"

\* Whether the update increments the version key
BumpsVersion(delta) == delta.op \in {"push", "splice"}

\* The outcome of doc.save(): "ok", "ValidationError" or "VersionError"
SaveOutcome(delta, stale) ==
  IF ~Valid(delta) THEN "ValidationError"
  ELSE IF Versioned(delta) /\ stale THEN "VersionError"
  ELSE "ok"

\* The stored document after the update save() sends
Updated(d, delta) ==
  CASE delta.op = "push" ->
         [d EXCEPT !.likedBy = Append(@, delta.user), !.likes = delta.likes]
    [] delta.op = "splice" ->
         [d EXCEPT !.likedBy = delta.likedBy, !.likes = delta.likes]
    [] delta.op = "views" -> [d EXCEPT !.views = delta.views]
    [] delta.op = "softDelete" -> [d EXCEPT !.deletedAt = "date"]
    [] delta.op = "archive" -> [d EXCEPT !.deletedAt = "date", !.status = "archived"]
    [] OTHER -> d

\* Genre.incrementCount / Tag.incrementCount over the ids of a comic:
\* findByIdAndUpdate(id, { $inc: { comicCount: 1 } })
incrementCount(count, ids) ==
  [g \in DOMAIN count |-> IF g \in ids THEN count[g] + 1 ELSE count[g]]

\* Genre.decrementCount / Tag.decrementCount: $inc: { comicCount: -1 }
decrementCount(count, ids) ==
  [g \in DOMAIN count |-> IF g \in ids THEN count[g] - 1 ELSE count[g]]

\* Whether the counters of a comic's genres and tags are below the cap
CountRoom(d) ==
  /\ \A g \in d.genres : genreCount[g] < MaxCount
  /\ \A t \in d.tags : tagCount[t] < MaxCount

\* ComicSchema.post('save'): after EVERY successful save of a Comic, one
\* incrementCount per genre and per tag of the saved document
postSave(d) ==
  IF d.kind = "Comic"
    THEN /\ genreCount' = incrementCount(genreCount, d.genres)
         /\ tagCount' = incrementCount(tagCount, d.tags)
    ELSE UNCHANGED <<genreCount, tagCount>>

\* doc.save() of the copy `d` loaded from docs[id], with its hooks
Save(id, d, delta, stale) ==
  IF SaveOutcome(delta, stale) = "ok"
    THEN /\ docs' = [docs EXCEPT ![id] = Updated(@, delta)]
         /\ postSave(d)
    ELSE UNCHANGED <<docs, genreCount, tagCount>>

\* ------------------------------------------------------------- responses
\* A response: the handler, its inputs, the method's return value, the HTTP
\* status, for a rejected save the error save() threw and, for a list
\* endpoint, the ids of the documents returned.
Response(op, id, u, ret, code, err) ==
  [op |-> op, id |-> id, user |-> u, ret |-> ret, code |-> code, err |-> err,
   data |-> {}]

Respond(op, id, u, ret, code) == last' = Response(op, id, u, ret, code, "")

NoResponse == Response("none", "", NoUser, FALSE, Ok, "")

\* What a handler has decided once its synchronous part after the read is
\* over: the error it throws (code), or the method's return value and the
\* update that save() is about to send.
Plan(code, ret, delta) == [code |-> code, ret |-> ret, delta |-> delta]

\* like handler that does not look at the status
likePlanAnyStatus(d, u) ==
  IF u = NoUser THEN Plan(BadRequest, FALSE, NoDelta)
  ELSE IF ~Found(d) THEN Plan(NotFound, FALSE, NoDelta)
  ELSE LET r == like(d, u) IN Plan(Ok, r.ret, r.delta)

\* ComicController.likeComic / BlogController.likeBlogPost
likePlan(d, u) ==
  IF u = NoUser THEN Plan(BadRequest, FALSE, NoDelta)
  ELSE IF ~Found(d) THEN Plan(NotFound, FALSE, NoDelta)
  ELSE IF d.status # "published" THEN Plan(Forbidden, FALSE, NoDelta)
  ELSE LET r == like(d, u) IN Plan(Ok, r.ret, r.delta)

\* unlike handler that rejects a user who never liked
unlikePlanStrict(d, u) ==
  IF u = NoUser THEN Plan(BadRequest, FALSE, NoDelta)
  ELSE IF ~Found(d) THEN Plan(NotFound, FALSE, NoDelta)
  ELSE LET r == unlike(d, u) IN
       IF r.ret THEN Plan(Ok, r.ret, r.delta) ELSE Plan(BadRequest, FALSE, NoDelta)

\* ComicController.unlikeComic / BlogController.unlikeBlogPost
unlikePlan(d, u) ==
  IF u = NoUser THEN Plan(BadRequest, FALSE, NoDelta)
  ELSE IF ~Found(d) THEN Plan(NotFound, FALSE, NoDelta)
  ELSE LET r == unlike(d, u) IN Plan(Ok, r.ret, r.delta)

\* ComicController.getLikeStatus / BlogController.getLikeStatus
likeStatusPlan(d, u) ==
  IF u = NoUser THEN Plan(BadRequest, FALSE, NoDelta)
  ELSE IF ~Found(d) THEN Plan(NotFound, FALSE, NoDelta)
  ELSE Plan(Ok, hasLiked(d, u), NoDelta)

\* BlogController.incrementViews (POST /blogs/:id/view)
viewPlan(d) ==
  IF ~Found(d) THEN Plan(NotFound, FALSE, NoDelta)
  ELSE IF d.status # "published" THEN Plan(Forbidden, FALSE, NoDelta)
  ELSE Plan(Ok, TRUE, incrementViews(d))

\* ComicController.deleteComic
deleteComicPlan(d) ==
  IF ~Found(d) THEN Plan(NotFound, FALSE, NoDelta)
  ELSE Plan(Ok, TRUE, softDelete(d))

\* BlogController.deleteBlogPost
deleteBlogPlan(d) ==
  IF ~Found(d) THEN Plan(NotFound, FALSE, NoDelta)
  ELSE Plan(Ok, TRUE, archive(d))

\* The rest of a handler whose plan is p, run on the copy d of docs[id]:
\* the save (when the plan has one) and the response.  A view answered 200
\* is counted in the history variable.
Complete(op, id, u, d, p, stale) ==
  LET saves   == p.code = Ok /\ p.delta.op # "none"
      outcome == IF saves THEN SaveOutcome(p.delta, stale) ELSE "ok"
      code    == IF outcome = "ok" THEN p.code ELSE ServerError
  IN  /\ IF saves THEN Save(id, d, p.delta, stale)
                  ELSE UNCHANGED <<docs, genreCount, tagCount>>
      /\ last' = Response(op, id, u, p.ret /\ code = Ok, code,
                           IF outcome = "ok" THEN "" ELSE outcome)
      /\ viewed' = IF op = "view" /\ code = Ok
                     THEN [viewed EXCEPT ![id] = @ + 1] ELSE viewed

\* ------------------------------------------------------- frame groups
storeVars == <<docs, genreCount, tagCount>>
trendVars == <<current, previous, trend, dailyData>>
slugVars  == <<posts, inserts, probe>>

\* The variables of the other components
authVars  == <<account, now, logins, streak>>
errVars   == <<fault, res>>
subVars   == <<subs, mail>>
moreVars  == <<authVars, taxa, errVars, subVars>>
restVars  == <<trendVars, slugVars, cloud, moreVars>>

\* The slug component at rest: an empty collection, no request, no probe
NoProbe == [title |-> <<>>, slug |-> <<>>, taken |-> {}]

NoPosts ==
  /\ posts = <<>>
  /\ inserts = EmptyBag
  /\ probe = NoProbe

\* No tag cloud requested yet
NoCloud == [minCount |-> 0, limit |-> 0, divisor |-> 1, data |-> <<>>]

\* The account of the login specifications.  lockUntil is a time in minutes,
\* or NoDate when the field is unset.
NoDate == -1

NewUser(verified) ==
  [email |-> "a@x", password |-> "right", loginAttempts |-> 0,
   lockUntil |-> NoDate, emailVerified |-> verified]

NoAccount == NewUser(FALSE)

\* No login yet
NoAuth ==
  /\ account = NoAccount
  /\ now = 0
  /\ logins = EmptyBag
  /\ streak = 0

\* An error as AppErrorHandler reads it: whether it is an ApiError and its
\* statusCode, httpCode, message, and errors.  errors is undefined, a value
\* that is no array, or an array; an element of the array is an object with
\* some keys, or no object.
Errors(defined, array, items) == [defined |-> defined, array |-> array, items |-> items]

NoErrors == Errors(FALSE, FALSE, <<>>)
NotArray == Errors(TRUE, FALSE, <<>>)
ArrayOf(items) == Errors(TRUE, TRUE, items)

Object(keys) == [object |-> TRUE, keys |-> keys]
NotObject    == [object |-> FALSE, keys |-> {}]

ValidationError == Object({"property", "constraints"})   \* a class-validator error

AnError(api, statusCode, httpCode, message, errors) ==
  [api |-> api, statusCode |-> statusCode, httpCode |-> httpCode,
   message |-> message, errors |-> errors]

NoFault == AnError(FALSE, "", "", "", NoErrors)

\* The response object before anything is written
NoRes == [sent |-> <<>>, thrown |-> FALSE]

\* No error handled
NoErr ==
  /\ fault = NoFault
  /\ res = NoRes

\* No tag or genre document
NoAdmin == taxa = <<>>

\* An EmailSubscriber document; NoToken is an unset token field, and
\* NoSubscriber stands for no document
NoToken == ""

NoSubscriber ==
  [email |-> "", isVerified |-> FALSE, verificationToken |-> NoToken,
   verificationSentAt |-> NoDate, isSubscribed |-> FALSE, unsubscribeToken |-> NoToken]

\* No subscriber known
NoSubs ==
  /\ subs = <<>>
  /\ mail = {}

NoMore == NoAuth /\ NoAdmin /\ NoErr /\ NoSubs

\* A request in flight: it has read its copy and run its method; its save()
\* (or its $inc) has not reached the store yet.  copy keeps what the save
\* hooks read of the in-memory document.
Pending(op, id, u, ret, delta, copy) ==
  [op |-> op, id |-> id, user |-> u, ret |-> ret, delta |-> delta,
   copy |-> copy, stale |-> FALSE]

\* No request in flight
NoReqs == EmptyBag

HookCopy(d) == [NoDoc EXCEPT !.kind = d.kind, !.genres = d.genres, !.tags = d.tags]

\* The input sets of the handlers
AnyUser == Users \cup {NoUser}

\* ------------------------------------------- handlers, one after another
\* Each action is a whole request: the read, the method, the save with its
\* hooks, and the response.

\* POST /comics/:id/like
likeComic(id, u) ==
  /\ CountRoom(findById(id))
  /\ Complete("like", id, u, findById(id), likePlan(findById(id), u), FALSE)
  /\ UNCHANGED <<req, restVars>>

\* POST /blogs/:id/like
likeBlogPost(id, u) ==
  /\ Complete("like", id, u, findById(id), likePlan(findById(id), u), FALSE)
  /\ UNCHANGED <<req, restVars>>

\* POST /comics/:id/unlike
unlikeComic(id, u) ==
  /\ CountRoom(findById(id))
  /\ Complete("unlike", id, u, findById(id), unlikePlan(findById(id), u), FALSE)
  /\ UNCHANGED <<req, restVars>>

\* POST /blogs/:id/unlike
unlikeBlogPost(id, u) ==
  /\ Complete("unlike", id, u, findById(id), unlikePlan(findById(id), u), FALSE)
  /\ UNCHANGED <<req, restVars>>

\* GET /comics/:id/like-status and GET /blogs/:id/like-status
getLikeStatus(id, u) ==
  /\ Complete("hasLiked", id, u, findById(id), likeStatusPlan(findById(id), u), FALSE)
  /\ UNCHANGED <<req, restVars>>

\* POST /blogs/:id/view
BlogController_incrementViews(id, viewer) ==
  /\ viewed[id] < MaxViews
  /\ Complete("view", id, viewer, findById(id), viewPlan(findById(id)), FALSE)
  /\ UNCHANGED <<req, restVars>>

\* findByIdAndUpdate(id, { $inc: { views: 1 } }) / findOneAndUpdate: one
\* atomic update of the stored document, no save hooks
incViews(id) == docs' = [docs EXCEPT ![id].views = @ + 1]

\* The filter { deletedAt: { $exists: true, $eq: null } } of the blog reads
BlogVisible(d) == Found(d) /\ d.deletedAt = "null"

\* The filter { deletedAt: null } of the comic reads: null or missing
ComicVisible(d) == Found(d) /\ d.deletedAt \in {"null", "missing"}

\* GET /blogs/:slug: findOne, then the $inc of views
getBlogPostBySlug(id, viewer) ==
  /\ viewed[id] < MaxViews
  /\ IF BlogVisible(findById(id))
       THEN /\ incViews(id)
            /\ Respond("view", id, viewer, TRUE, Ok)
            /\ viewed' = [viewed EXCEPT ![id] = @ + 1]
       ELSE /\ Respond("view", id, viewer, FALSE, NotFound)
            /\ UNCHANGED <<docs, viewed>>
  /\ UNCHANGED <<genreCount, tagCount, req, restVars>>

\* GET /comics/:slug: findOneAndUpdate({ slug, deletedAt: null }, $inc views)
getComic(id, viewer) ==
  /\ viewed[id] < MaxViews
  /\ IF ComicVisible(findById(id))
       THEN /\ incViews(id)
            /\ Respond("view", id, viewer, TRUE, Ok)
            /\ viewed' = [viewed EXCEPT ![id] = @ + 1]
       ELSE /\ Respond("view", id, viewer, FALSE, NotFound)
            /\ UNCHANGED <<docs, viewed>>
  /\ UNCHANGED <<genreCount, tagCount, req, restVars>>

\* DELETE /comics/:id
deleteComic(id) ==
  /\ CountRoom(findById(id))
  /\ Complete("delete", id, NoUser, findById(id), deleteComicPlan(findById(id)), FALSE)
  /\ UNCHANGED <<req, restVars>>

\* DELETE /blogs/:id
deleteBlogPost(id) ==
  /\ Complete("delete", id, NoUser, findById(id), deleteBlogPlan(findById(id)), FALSE)
  /\ UNCHANGED <<req, restVars>>

LikeComic      == \E id \in ComicIds, u \in AnyUser : likeComic(id, u)
LikeBlogPost   == \E id \in BlogIds, u \in AnyUser : likeBlogPost(id, u)
UnlikeComic    == \E id \in ComicIds, u \in AnyUser : unlikeComic(id, u)
UnlikeBlogPost == \E id \in BlogIds, u \in AnyUser : unlikeBlogPost(id, u)
GetLikeStatus  == \E id \in Ids, u \in AnyUser : getLikeStatus(id, u)
ViewBlogPost   == \E id \in BlogIds, u \in Users : BlogController_incrementViews(id, u)
GetBlogPostBySlug == \E id \in BlogIds, u \in Users : getBlogPostBySlug(id, u)
GetComic       == \E id \in ComicIds, u \in Users : getComic(id, u)
DeleteComic    == \E id \in ComicIds : deleteComic(id)
DeleteBlogPost == \E id \in BlogIds : deleteBlogPost(id)

Statuses == {"draft", "published"}

\* One comic without genres or tags and one blog post, as createComic and
\* createBlogPost leave them; c2 names no document.
InitSeq ==
  /\ \E sc \in Statuses, sb \in Statuses :
       docs = [id \in Ids |->
                 IF id = "c1" THEN NewComic(sc, {}, {})
                 ELSE IF id = "b1" THEN NewBlogPost(sb)
                 ELSE NoDoc]
  /\ genreCount = [g \in Genres |-> 0]
  /\ tagCount = [t \in Tags |-> 0]
  /\ req = NoReqs
  /\ last = NoResponse
  /\ viewed = [id \in Ids |-> 0]
  /\ current = 0 /\ previous = 0 /\ trend = [fn |-> "none", num |-> 0, den |-> 1]
  /\ dailyData = <<>>
  /\ NoPosts
  /\ cloud = NoCloud
  /\ NoMore

NextSeq ==
  \/ LikeComic
  \/ LikeBlogPost
  \/ UnlikeComic
  \/ UnlikeBlogPost
  \/ GetLikeStatus
  \/ ViewBlogPost
  \/ GetBlogPostBySlug
  \/ GetComic
  \/ DeleteComic
  \/ DeleteBlogPost

\* Requests handled one after another
SpecSeq == InitSeq /\ [][NextSeq]_vars

\* ------------------------------------------------- concurrent requests
\* A request is two steps when it saves: Begin reads the document and runs
\* the synchronous part of the handler; SaveEnd is the update of its save()
\* reaching the store.  Other requests may run in between.

AllIdle == req = NoReqs

\* The requests in flight on document id whose handler is one of ops
InFlight(id, ops) ==
  BagCardinality([r \in {q \in BagToSet(req) : q.id = id /\ q.op \in ops} |-> req[r]])

Begin(op, id, u, p) ==
  /\ BagCardinality(req) < MaxReq
  /\ IF p.code # Ok \/ p.delta.op = "none"
       THEN /\ Complete(op, id, u, findById(id), p, FALSE)
            /\ UNCHANGED req
       ELSE /\ req' = req (+) SetToBag({Pending(op, id, u, p.ret, p.delta,
                                                HookCopy(findById(id)))})
            /\ UNCHANGED <<storeVars, last, viewed>>
  /\ UNCHANGED restVars

\* likeComic / likeBlogPost up to the await of save()
LikeBegin(id, u) ==
  /\ findById(id).likes < MaxLikes
  /\ Len(findById(id).likedBy) + InFlight(id, {"like"}) < MaxLikedBy
  /\ Begin("like", id, u, likePlan(findById(id), u))

\* unlikeComic / unlikeBlogPost up to the await of save()
UnlikeBegin(id, u) == Begin("unlike", id, u, unlikePlan(findById(id), u))

\* BlogController.incrementViews up to the await of save()
ViewBegin(id, viewer) ==
  /\ viewed[id] + InFlight(id, {"view", "slugview"}) < MaxViews
  /\ Begin("view", id, viewer, viewPlan(findById(id)))

\* The copy of request q once the version key of document id has moved on
\* (the flag is kept only where save() reads it)
Outdated(q, id) ==
  IF q.id = id /\ Versioned(q.delta) THEN [q EXCEPT !.stale = TRUE] ELSE q

\* The requests B with the copies of document id outdated
MarkStale(B, id) ==
  [x \in {Outdated(q, id) : q \in BagToSet(B)} |->
     BagCardinality([q \in {e \in BagToSet(B) : Outdated(e, id) = x} |-> B[q]])]

\* The update of save() reaches the store.  An update that increments the
\* version key makes the copies of the other requests in flight stale.
SaveEnd(r) ==
  LET rest == req (-) SetToBag({r})
      done == SaveOutcome(r.delta, r.stale) = "ok" /\ BumpsVersion(r.delta)
  IN  /\ r.op \in {"like", "unlike", "view"}
      /\ Complete(r.op, r.id, r.user, r.copy, Plan(Ok, r.ret, r.delta), r.stale)
      /\ req' = IF done THEN MarkStale(rest, r.id) ELSE rest
      /\ UNCHANGED restVars

\* getBlogPostBySlug up to the await of findByIdAndUpdate
SlugViewBegin(id, viewer) ==
  /\ BagCardinality(req) < MaxReq
  /\ viewed[id] + InFlight(id, {"view", "slugview"}) < MaxViews
  /\ IF BlogVisible(findById(id))
       THEN /\ req' = req (+) SetToBag({Pending("slugview", id, viewer, TRUE,
                                                NoDelta, NoDoc)})
            /\ UNCHANGED last
       ELSE /\ Respond("view", id, viewer, FALSE, NotFound)
            /\ UNCHANGED req
  /\ UNCHANGED <<storeVars, viewed, restVars>>

\* findByIdAndUpdate(post._id, { $inc: { views: 1 } }) reaches the store
SlugViewEnd(r) ==
  /\ r.op = "slugview"
  /\ incViews(r.id)
  /\ Respond("view", r.id, r.user, TRUE, Ok)
  /\ viewed' = [viewed EXCEPT ![r.id] = @ + 1]
  /\ req' = req (-) SetToBag({r})
  /\ UNCHANGED <<genreCount, tagCount, restVars>>

BeginLike     == \E id \in Ids, u \in Users : LikeBegin(id, u)
BeginUnlike   == \E id \in Ids, u \in Users : UnlikeBegin(id, u)
BeginView     == \E id \in BlogIds, u \in Users : ViewBegin(id, u)
BeginSlugView == \E id \in BlogIds, u \in Users : SlugViewBegin(id, u)
EndSave       == \E r \in BagToSet(req) : SaveEnd(r)
EndSlugView   == \E r \in BagToSet(req) : SlugViewEnd(r)

\* One published or draft document, a comic or a blog post
Init ==
  /\ \E only \in {"c1", "b1"}, st \in Statuses :
       docs = [id \in Ids |->
                 IF id # only THEN NoDoc
                 ELSE IF id \in ComicIds THEN NewComic(st, {}, {})
                 ELSE NewBlogPost(st)]
  /\ genreCount = [g \in Genres |-> 0]
  /\ tagCount = [t \in Tags |-> 0]
  /\ req = NoReqs
  /\ last = NoResponse
  /\ viewed = [id \in Ids |-> 0]
  /\ current = 0 /\ previous = 0 /\ trend = [fn |-> "none", num |-> 0, den |-> 1]
  /\ dailyData = <<>>
  /\ NoPosts
  /\ cloud = NoCloud
  /\ NoMore

Next ==
  \/ BeginLike
  \/ BeginUnlike
  \/ EndSave

\* Concurrent like and unlike requests on one document
Spec == Init /\ [][Next]_vars

\* A published comic and a published blog post
InitView ==
  /\ docs = [id \in Ids |->
               IF id = "c1" THEN NewComic("published", {}, {})
               ELSE IF id = "b1" THEN NewBlogPost("published")
               ELSE NoDoc]
  /\ genreCount = [g \in Genres |-> 0]
  /\ tagCount = [t \in Tags |-> 0]
  /\ req = NoReqs
  /\ last = NoResponse
  /\ viewed = [id \in Ids |-> 0]
  /\ current = 0 /\ previous = 0 /\ trend = [fn |-> "none", num |-> 0, den |-> 1]
  /\ dailyData = <<>>
  /\ NoPosts
  /\ cloud = NoCloud
  /\ NoMore

NextView ==
  \/ BeginView
  \/ BeginSlugView
  \/ EndSave
  \/ EndSlugView
  \/ GetComic

\* Concurrent view requests
SpecView == InitView /\ [][NextView]_vars

\* ------------------------------------------------ comic count hooks
Created == "201"   \* @HttpCode(201)

\* POST /comics: findOne({ slug }), new Comic(payload), save() with its
\* post('save') hook.  The id stands for the new document and its slug.
createComic(id, st, gs, ts) ==
  /\ CountRoom(NewComic(st, gs, ts))
  /\ IF Found(findById(id))
       THEN /\ Respond("create", id, NoUser, FALSE, BadRequest)
            /\ UNCHANGED storeVars
       ELSE /\ docs' = [docs EXCEPT ![id] = NewComic(st, gs, ts)]
            /\ postSave(NewComic(st, gs, ts))
            /\ Respond("create", id, NoUser, TRUE, Created)
  /\ UNCHANGED <<req, viewed, restVars>>

CreateComic ==
  \E id \in ComicIds, st \in Statuses, gs \in SUBSET Genres, ts \in SUBSET Tags :
    createComic(id, st, gs, ts)

\* The comics that reference genre or tag x and are not deleted
Referencing(x) ==
  {id \in ComicIds : /\ Found(docs[id])
                     /\ docs[id].deletedAt # "date"
                     /\ x \in docs[id].genres \cup docs[id].tags}

\* Empty collections
InitCount ==
  /\ docs = [id \in Ids |-> NoDoc]
  /\ genreCount = [g \in Genres |-> 0]
  /\ tagCount = [t \in Tags |-> 0]
  /\ req = NoReqs
  /\ last = NoResponse
  /\ viewed = [id \in Ids |-> 0]
  /\ current = 0 /\ previous = 0 /\ trend = [fn |-> "none", num |-> 0, den |-> 1]
  /\ dailyData = <<>>
  /\ NoPosts
  /\ cloud = NoCloud
  /\ NoMore

NextCount ==
  \/ CreateComic
  \/ DeleteComic

\* createComic and deleteComic requests, one after another
SpecCount == InitCount /\ [][NextCount]_vars

\* ------------------------------------------------------------------ trend
\* JavaScript numbers that arise here are rationals num / den; den = 0
\* stands for the non-finite result of a division by zero (Infinity, NaN).
Rat(n, d) == [num |-> n, den |-> d]

RatEq(a, b) == a.den # 0 /\ b.den # 0 /\ a.num * b.den = b.num * a.den

\* a / b on integers
JsDiv(a, b) == Rat(a, b)

\* r * k
JsTimes(r, k) == Rat(r.num * k, r.den)

Abs(n) == IF n < 0 THEN 0 - n ELSE n

\* parseFloat(r.toFixed(1)): the nearest multiple of 0.1.  (No input within
\* the bounds lies halfway between two multiples: that needs a divisor
\* that is a multiple of 16.)
toFixed1(r) ==
  IF r.den = 0 THEN r
  ELSE LET n == Abs(r.num) * 10
           d == Abs(r.den)
           q == (2 * n + d) \div (2 * d)
       IN  Rat(IF (r.num < 0) = (r.den < 0) THEN q ELSE 0 - q, 10)

\* the trend of getComparativeStats without the previous > 0 guard
ComparativeTrendUnguarded(cur, prev) ==
  toFixed1(JsTimes(JsDiv(cur - prev, prev), 100))

\* AdminStatsController.getComparativeStats: the trend of two counts
ComparativeTrend(cur, prev) ==
  IF prev > 0
    THEN toFixed1(JsTimes(JsDiv(cur - prev, prev), 100))
    ELSE IF cur > 0 THEN Rat(100, 1) ELSE Rat(0, 1)

\* EmailSubscriberSchema.statics.getGrowthStats: the trend of two counts
GrowthTrend(cur, prev) ==
  IF prev > 0 THEN JsTimes(JsDiv(cur - prev, prev), 100)
  ELSE IF cur > 0 THEN Rat(100, 1)
  ELSE Rat(0, 1)

Computed(fn, r) == [fn |-> fn, num |-> r.num, den |-> r.den]

getComparativeStats ==
  /\ trend' = Computed("getComparativeStats", ComparativeTrend(current, previous))
  /\ UNCHANGED <<storeVars, req, last, viewed, current, previous, dailyData, slugVars, cloud, moreVars>>

getGrowthStats ==
  /\ trend' = Computed("getGrowthStats", GrowthTrend(current, previous))
  /\ UNCHANGED <<storeVars, req, last, viewed, current, previous, dailyData, slugVars, cloud, moreVars>>

\* Any two period counts
InitTrend ==
  /\ current \in 0..MaxN /\ previous \in 0..MaxN
  /\ trend = [fn |-> "none", num |-> 0, den |-> 1]
  /\ dailyData = <<>>
  /\ NoPosts
  /\ cloud = NoCloud
  /\ NoMore
  /\ docs = [id \in Ids |-> NoDoc]
  /\ genreCount = [g \in Genres |-> 0]
  /\ tagCount = [t \in Tags |-> 0]
  /\ req = NoReqs
  /\ last = NoResponse
  /\ viewed = [id \in Ids |-> 0]

NextTrend ==
  \/ getComparativeStats
  \/ getGrowthStats

\* The trend functions applied to any two counts
SpecTrend == InitTrend /\ [][NextTrend]_vars

\* ------------------------------------------------- dashboard trends
\* a - b and a / b on JavaScript numbers
RatMinus(a, b) == Rat(a.num * b.den - b.num * a.den, a.den * b.den)
RatOver(a, b)  == Rat(a.num * b.den, a.den * b.num)

\* r > 0; false for NaN
Positive(r) == r.den # 0 /\ ((r.num > 0 /\ r.den > 0) \/ (r.num < 0 /\ r.den < 0))

\* Array.prototype.slice(from, to) with from, to <= 0 counted from the end
\* (to = 0 stands for an omitted end)
Slice(s, from, to) ==
  LET lo == IF Len(s) + from < 0 THEN 0 ELSE Len(s) + from
      hi == IF Len(s) + to < 0 THEN 0 ELSE Len(s) + to
  IN  SubSeq(s, lo + 1, hi)

\* reduce((sum, day) => sum + day.value, 0)
RECURSIVE Sum(_)
Sum(s) == IF s = <<>> THEN 0 ELSE Head(s) + Sum(Tail(s))

\* AdminStatsController.calculateTrendFromDailyData: the averages of the
\* last 7 entries and of the up to 7 entries before them
calculateTrendFromDailyData(data) ==
  IF Len(data) < 2 THEN Rat(0, 1)
  ELSE LET recentPeriod   == Slice(data, 0 - 7, 0)
           previousPeriod == Slice(data, 0 - 14, 0 - 7)
           recentAvg      == JsDiv(Sum(recentPeriod), Len(recentPeriod))
           previousAvg    == JsDiv(Sum(previousPeriod), Len(previousPeriod))
       IN  IF Positive(previousAvg)
             THEN toFixed1(JsTimes(RatOver(RatMinus(recentAvg, previousAvg),
                                           previousAvg), 100))
             ELSE IF Positive(recentAvg) THEN Rat(100, 1) ELSE Rat(0, 1)

\* AdminStatsController.calculateLikesTrend on the two period totals
calculateLikesTrend(cur, prev) ==
  IF prev > 0
    THEN toFixed1(JsTimes(JsDiv(cur - prev, prev), 100))
    ELSE IF cur > 0 THEN Rat(100, 1) ELSE Rat(0, 1)

\* AdminStatsController.getSubscriberGrowthStats on the two period counts
getSubscriberGrowthStats(cur, prev) ==
  IF prev > 0
    THEN toFixed1(JsTimes(JsDiv(cur - prev, prev), 100))
    ELSE IF cur > 0 THEN Rat(100, 1) ELSE Rat(0, 1)

\* getDashboardOverview: viewsTrend
viewsTrend ==
  /\ trend' = Computed("calculateTrendFromDailyData",
                       calculateTrendFromDailyData(dailyData))
  /\ UNCHANGED <<storeVars, req, last, viewed, current, previous, dailyData, slugVars, cloud, moreVars>>

\* getDashboardOverview: likesTrend
likesTrend ==
  /\ trend' = Computed("calculateLikesTrend", calculateLikesTrend(current, previous))
  /\ UNCHANGED <<storeVars, req, last, viewed, current, previous, dailyData, slugVars, cloud, moreVars>>

\* getDashboardOverview: subscriberTrend
subscriberTrend ==
  /\ trend' = Computed("getSubscriberGrowthStats",
                       getSubscriberGrowthStats(current, previous))
  /\ UNCHANGED <<storeVars, req, last, viewed, current, previous, dailyData, slugVars, cloud, moreVars>>

\* The values of one day of the series
DayValues == {0, 1}

RECURSIVE Series(_)
Series(n) ==
  IF n = 0 THEN {<<>>}
  ELSE Series(n - 1) \cup {Append(s, v) : s \in Series(n - 1), v \in DayValues}

\* Any two period totals, or any daily series of up to MaxDays entries
InitDashboard ==
  /\ \/ current \in 0..MaxN /\ previous \in 0..MaxN /\ dailyData = <<>>
     \/ current = 0 /\ previous = 0 /\ dailyData \in Series(MaxDays)
  /\ trend = [fn |-> "none", num |-> 0, den |-> 1]
  /\ NoPosts
  /\ cloud = NoCloud
  /\ NoMore
  /\ docs = [id \in Ids |-> NoDoc]
  /\ genreCount = [g \in Genres |-> 0]
  /\ tagCount = [t \in Tags |-> 0]
  /\ req = NoReqs
  /\ last = NoResponse
  /\ viewed = [id \in Ids |-> 0]

NextDashboard ==
  \/ getComparativeStats
  \/ subscriberTrend
  \/ likesTrend
  \/ viewsTrend

\* The trend figures of getDashboardOverview
SpecDashboard == InitDashboard /\ [][NextDashboard]_vars

\* ------------------------------------------------------------ blog slugs
\* Titles and slugs are strings: sequences of characters.
WordChars == {"a", "A", "1"}

NoString == <<>>   \* an absent or empty string

\* String.prototype.toLowerCase
toLowerCase(s) == [i \in 1..Len(s) |-> IF s[i] = "A" THEN "a" ELSE s[i]]

\* replace(/[^\w\s-]/g, ''): keep word characters, white space and hyphens
RECURSIVE KeepWord(_)
KeepWord(s) ==
  IF s = <<>> THEN <<>>
  ELSE IF Head(s) \in WordChars \cup {" ", "-"}
         THEN <<Head(s)>> \o KeepWord(Tail(s))
         ELSE KeepWord(Tail(s))

RECURSIVE DropLeading(_, _)
DropLeading(s, c) ==
  IF s # <<>> /\ Head(s) = c THEN DropLeading(Tail(s), c) ELSE s

\* replace(/\s+/g, '-') with c = " " and replace(/--+/g, '-') with c = "-":
\* every run of c becomes one hyphen
RECURSIVE RunsToHyphen(_, _)
RunsToHyphen(s, c) ==
  IF s = <<>> THEN <<>>
  ELSE IF Head(s) = c
         THEN <<"-">> \o RunsToHyphen(DropLeading(Tail(s), c), c)
         ELSE <<Head(s)>> \o RunsToHyphen(Tail(s), c)

RECURSIVE DropTrailing(_, _)
DropTrailing(s, c) ==
  IF s # <<>> /\ s[Len(s)] = c THEN DropTrailing(SubSeq(s, 1, Len(s) - 1), c) ELSE s

\* String.prototype.trim
Trim(s) == DropTrailing(DropLeading(s, " "), " ")

\* The base slug of a title
BaseSlug(title) ==
  Trim(RunsToHyphen(RunsToHyphen(KeepWord(toLowerCase(title)), " "), "-"))

\* `${counter}`: the decimal digits of a positive number
RECURSIVE Digits(_)
Digits(n) ==
  LET digit == <<"0", "1", "2", "3", "4", "5", "6", "7", "8", "9">>[(n % 10) + 1]
  IN  IF n < 10 THEN <<digit>> ELSE Digits(n \div 10) \o <<digit>>

\* BlogPost.findOne({ slug }): any post, deleted or not
HasSlug(coll, slug) == \E i \in 1..Len(coll) : coll[i].slug = slug

Slugs(coll) == {coll[i].slug : i \in 1..Len(coll)}

\* the slug generator without the probe of the store
generateBaseSlug(coll, title) == BaseSlug(title)

\* The loop of generateUniqueSlug
RECURSIVE ProbeLoop(_, _, _, _)
ProbeLoop(coll, baseSlug, slug, counter) ==
  IF HasSlug(coll, slug)
    THEN ProbeLoop(coll, baseSlug, baseSlug \o <<"-">> \o Digits(counter), counter + 1)
    ELSE slug

\* generateUniqueSlug(title) against the stored posts
generateUniqueSlug(coll, title) == ProbeLoop(coll, BaseSlug(title), BaseSlug(title), 1)

Probed(title, slug) == [title |-> title, slug |-> slug, taken |-> Slugs(posts)]

\* The outcome of writing `slug` for post i (i = 0: a new post): slug is
\* required and has a unique index
SlugWrite(coll, i, slug) ==
  IF slug = NoString THEN "ValidationError"
  ELSE IF \E j \in 1..Len(coll) : j # i /\ coll[j].slug = slug THEN "DuplicateKey"
  ELSE "ok"

NewPost(title, slug) == [title |-> title, slug |-> slug, deleted |-> FALSE]

\* BlogPost.create({ slug, title, ..., deletedAt: null }) and the response
insertPost(title, slug) ==
  LET outcome == SlugWrite(posts, 0, slug) IN
  /\ posts' = IF outcome = "ok" THEN Append(posts, NewPost(title, slug)) ELSE posts
  /\ last' = Response("createBlogPost", "", NoUser, outcome = "ok",
                      IF outcome = "ok" THEN Created ELSE ServerError,
                      IF outcome = "ok" THEN "" ELSE outcome)

\* POST /blogs
createBlogPost(title) ==
  /\ Len(posts) < MaxPosts
  /\ IF title = NoString
       THEN /\ Respond("createBlogPost", "", NoUser, FALSE, BadRequest)
            /\ probe' = NoProbe
            /\ UNCHANGED posts
       ELSE /\ probe' = Probed(title, generateUniqueSlug(posts, title))
            /\ insertPost(title, generateUniqueSlug(posts, title))
  /\ UNCHANGED <<storeVars, req, viewed, trendVars, cloud, moreVars, inserts>>

\* PUT /blogs/:id with a body that may hold a title and a slug
updateBlogPost(i, title, slug) ==
  /\ IF i > Len(posts)
       THEN /\ Respond("updateBlogPost", "", NoUser, FALSE, NotFound)
            /\ probe' = NoProbe
            /\ UNCHANGED posts
       ELSE IF posts[i].deleted
       THEN /\ Respond("updateBlogPost", "", NoUser, FALSE, BadRequest)
            /\ probe' = NoProbe
            /\ UNCHANGED posts
       ELSE LET retitled == title # NoString /\ title # posts[i].title
                newSlug  == IF retitled THEN generateUniqueSlug(posts, title)
                            ELSE IF slug # NoString THEN toLowerCase(slug)
                            ELSE posts[i].slug
                newTitle == IF title # NoString THEN title ELSE posts[i].title
                outcome  == IF newSlug = posts[i].slug THEN "ok"
                            ELSE SlugWrite(posts, i, newSlug)
            IN  /\ probe' = IF retitled THEN Probed(title, newSlug) ELSE NoProbe
                /\ posts' = IF outcome = "ok"
                              THEN [posts EXCEPT ![i].title = newTitle, ![i].slug = newSlug]
                              ELSE posts
                /\ last' = Response("updateBlogPost", "", NoUser, outcome = "ok",
                                    IF outcome = "ok" THEN Ok ELSE ServerError,
                                    IF outcome = "ok" THEN "" ELSE outcome)
  /\ UNCHANGED <<storeVars, req, viewed, trendVars, cloud, moreVars, inserts>>

\* DELETE /blogs/:id as the slug code sees it: the post stays in the store
archiveBlogPost(i) ==
  /\ IF i > Len(posts)
       THEN /\ Respond("deleteBlogPost", "", NoUser, FALSE, NotFound)
            /\ UNCHANGED posts
       ELSE /\ posts' = [posts EXCEPT ![i].deleted = TRUE]
            /\ Respond("deleteBlogPost", "", NoUser, TRUE, Ok)
  /\ probe' = NoProbe
  /\ UNCHANGED <<storeVars, req, viewed, trendVars, cloud, moreVars, inserts>>

\* The titles and slugs requests carry
Titles == {NoString, <<"a">>, <<"A", "!">>, <<"a", " ", "-", "1">>}

BodySlugs == {NoString, <<"A">>}

CreateBlogPost  == \E title \in Titles : createBlogPost(title)
UpdateBlogPost  ==
  \E i \in 1..MaxPosts, title \in Titles, slug \in BodySlugs : updateBlogPost(i, title, slug)
ArchiveBlogPost == \E i \in 1..MaxPosts : archiveBlogPost(i)

\* An empty BlogPost collection
InitSlug ==
  /\ docs = [id \in Ids |-> NoDoc]
  /\ genreCount = [g \in Genres |-> 0]
  /\ tagCount = [t \in Tags |-> 0]
  /\ req = NoReqs
  /\ last = NoResponse
  /\ viewed = [id \in Ids |-> 0]
  /\ current = 0 /\ previous = 0 /\ trend = [fn |-> "none", num |-> 0, den |-> 1]
  /\ dailyData = <<>>
  /\ NoPosts
  /\ cloud = NoCloud
  /\ NoMore

NextSlug ==
  \/ CreateBlogPost
  \/ UpdateBlogPost
  \/ ArchiveBlogPost

\* createBlogPost, updateBlogPost and deleteBlogPost, one after another
SpecSlug == InitSlug /\ [][NextSlug]_vars

\* createBlogPost up to the await of BlogPost.create: the slug is chosen
createBegin(title) ==
  /\ title # NoString
  /\ BagCardinality(inserts) < MaxReq
  /\ Len(posts) + BagCardinality(inserts) < MaxPosts
  /\ probe' = Probed(title, generateUniqueSlug(posts, title))
  /\ inserts' = inserts (+) SetToBag({[title |-> title,
                                       slug |-> generateUniqueSlug(posts, title)]})
  /\ UNCHANGED <<storeVars, req, last, viewed, trendVars, cloud, moreVars, posts>>

\* BlogPost.create reaches the store
createEnd(r) ==
  /\ insertPost(r.title, r.slug)
  /\ inserts' = inserts (-) SetToBag({r})
  /\ probe' = NoProbe
  /\ UNCHANGED <<storeVars, req, viewed, trendVars, cloud, moreVars>>

BeginCreate == \E title \in Titles : createBegin(title)
EndCreate   == \E r \in BagToSet(inserts) : createEnd(r)

NextSlugRace ==
  \/ BeginCreate
  \/ EndCreate
  \/ ArchiveBlogPost

\* Concurrent createBlogPost requests, and deleteBlogPost requests
SpecSlugRace == InitSlug /\ [][NextSlugRace]_vars

\* -------------------------------------------------------------- tag cloud
\* A query parameter after parseInt: a number, or NaN when the parameter is
\* absent or not numeric
Param(n)  == [nan |-> FALSE, n |-> n]
NaNParam  == [nan |-> TRUE, n |-> 0]

\* parseInt(x) || fallback: NaN and 0 are falsy
OrDefault(p, fallback) == IF p.nan \/ p.n = 0 THEN fallback ELSE p.n

DefaultMinCount == 1    \* parseInt(query.minCount) || 1
DefaultLimit    == 50   \* parseInt(query.limit) || 50
minFontSize     == 12
maxFontSize     == 32

\* Math.round of the rational n / d with d > 0: floor(x + 0.5).  (The
\* floating-point value of x is exact enough here: a tie needs a divisor
\* that is a multiple of 8.)
MathRound(n, d) == (2 * n + d) \div (2 * d)

\* the query without its comicCount filter
findAllTags(minCount) == DOMAIN tagCount

\* Tag.find({ comicCount: { $gte: minCount } })
findTags(minCount) == {t \in DOMAIN tagCount : tagCount[t] >= minCount}

\* .sort('-comicCount').limit(limit): any descending order of the tags
\* found, cut after |limit| entries
SortedLimited(found, limit) ==
  {SubSeq(order, 1, IF Abs(limit) < Len(order) THEN Abs(limit) ELSE Len(order)) :
     order \in {o \in [1..Cardinality(found) -> found] :
                  /\ \A i, j \in DOMAIN o : i # j => o[i] # o[j]
                  /\ \A i, j \in DOMAIN o : i < j => tagCount[o[i]] >= tagCount[o[j]]}}

\* tags[0]?.comicCount || 1
MaxCountOf(tags) ==
  IF tags = <<>> \/ tagCount[tags[1]] = 0 THEN 1 ELSE tagCount[tags[1]]

\* maxCount - minCount > 0 ? (maxCount - minCount) : 1
Divisor(maxCount, minCount) ==
  IF maxCount - minCount > 0 THEN maxCount - minCount ELSE 1

\* a font size that shrinks as the count grows
fontSizeInverted(count, minCount, divisor) ==
  MathRound(maxFontSize * divisor - (count - minCount) * (maxFontSize - minFontSize),
            divisor)

\* Math.round(minFontSize + ((count - minCount) / divisor) * (maxFontSize - minFontSize))
fontSize(count, minCount, divisor) ==
  MathRound(minFontSize * divisor + (count - minCount) * (maxFontSize - minFontSize),
            divisor)

\* GET /tags/cloud
getTagCloud(qMinCount, qLimit) ==
  LET minCount == OrDefault(qMinCount, DefaultMinCount)
      limit    == OrDefault(qLimit, DefaultLimit)
  IN  /\ \E tags \in SortedLimited(findTags(minCount), limit) :
           LET maxCount == MaxCountOf(tags)
               divisor  == Divisor(maxCount, minCount)
           IN  cloud' = [minCount |-> minCount, limit |-> limit, divisor |-> divisor,
                         data |-> [i \in 1..Len(tags) |->
                                     [tag |-> tags[i], comicCount |-> tagCount[tags[i]],
                                      fontSize |-> fontSize(tagCount[tags[i]], minCount,
                                                            divisor)]]]
      /\ UNCHANGED <<storeVars, req, last, viewed, trendVars, slugVars, moreVars>>

\* The tags of the cloud specification and the query parameters tried
CloudTags  == {"t1", "t2", "t3"}
MinCounts  == {NaNParam} \cup {Param(n) : n \in (0 - 2)..MaxCount}
Limits     == {NaNParam, Param(0 - 1), Param(0), Param(1), Param(2)}

GetTagCloud == \E qMinCount \in MinCounts, qLimit \in Limits : getTagCloud(qMinCount, qLimit)

\* Any stored comicCount values of three tags
InitCloud ==
  /\ tagCount \in [CloudTags -> 0..MaxCount]
  /\ docs = [id \in Ids |-> NoDoc]
  /\ genreCount = [g \in Genres |-> 0]
  /\ req = NoReqs
  /\ last = NoResponse
  /\ viewed = [id \in Ids |-> 0]
  /\ current = 0 /\ previous = 0 /\ trend = [fn |-> "none", num |-> 0, den |-> 1]
  /\ dailyData = <<>>
  /\ NoPosts
  /\ cloud = NoCloud
  /\ NoMore

NextCloud == GetTagCloud

\* getTagCloud on any tag collection
SpecCloud == InitCloud /\ [][NextCloud]_vars

\* ------------------------------------------------------ reads and lists
\* The errors handlers throw: routing-controllers HttpErrors carry httpCode,
\* a plain Error carries none
NotFoundError == [name |-> "NotFoundError", httpCode |-> NotFound]
PlainError    == [name |-> "Error", httpCode |-> ""]

\* AppErrorHandler.error: status = err.httpCode || 500
status(err) == IF err.httpCode # "" THEN err.httpCode ELSE ServerError

\* GET /genres/:slug: Genre.findOne({ slug }), else throw new Error(..)
getGenre(slug) ==
  /\ IF slug \in DOMAIN genreCount
       THEN Respond("getGenre", slug, NoUser, TRUE, Ok)
       ELSE Respond("getGenre", slug, NoUser, FALSE, status(PlainError))
  /\ UNCHANGED <<storeVars, req, viewed, restVars>>

\* GET /tags/:slug: Tag.findOne({ slug }), else throw new Error(..)
getTag(slug) ==
  /\ IF slug \in DOMAIN tagCount
       THEN Respond("getTag", slug, NoUser, TRUE, Ok)
       ELSE Respond("getTag", slug, NoUser, FALSE, status(PlainError))
  /\ UNCHANGED <<storeVars, req, viewed, restVars>>

\* a list that forgets the deletedAt filter
findAllComics == {id \in ComicIds : Found(docs[id])}

\* Comic.find({ deletedAt: null })
findComics == {id \in ComicIds : ComicVisible(docs[id])}

\* BlogPost.find({ deletedAt: { $exists: true, $eq: null } })
findBlogPosts == {id \in BlogIds : BlogVisible(docs[id])}

\* GET /comics without query parameters
getComics ==
  /\ last' = [Response("getComics", "", NoUser, TRUE, Ok, "") EXCEPT !.data = findComics]
  /\ UNCHANGED <<storeVars, req, viewed, restVars>>

\* GET /blogs without query parameters
getBlogPosts ==
  /\ last' = [Response("getBlogPosts", "", NoUser, TRUE, Ok, "") EXCEPT
                !.data = findBlogPosts]
  /\ UNCHANGED <<storeVars, req, viewed, restVars>>

\* The slugs requests name: those of the stored genres and tags, and one
\* that no genre or tag has
GenreSlugs == Genres \cup {"g0"}
TagSlugs   == Tags \cup {"t0"}

GetGenre == \E slug \in GenreSlugs : getGenre(slug)
GetTag   == \E slug \in TagSlugs : getTag(slug)

NextRead ==
  \/ GetGenre
  \/ GetTag
  \/ GetComic
  \/ GetBlogPostBySlug
  \/ getComics
  \/ getBlogPosts
  \/ DeleteComic
  \/ DeleteBlogPost

\* Public reads, lists and deletes, one after another
SpecRead == InitSeq /\ [][NextRead]_vars

\* ------------------------------------------- count hooks on other paths
\* ComicSchema.methods.updateRating: ratingCount and averageRating change
\* (neither is a counter of this model), then save()
updateRating(d) == [NoDelta EXCEPT !.op = "rating"]

\* comic.incrementViews() on a loaded comic
Comic_incrementViews(id) ==
  /\ Found(findById(id))
  /\ findById(id).views < MaxViews
  /\ CountRoom(findById(id))
  /\ Complete("incrementViews", id, NoUser, findById(id),
              Plan(Ok, TRUE, incrementViews(findById(id))), FALSE)
  /\ UNCHANGED <<req, restVars>>

\* comic.updateRating(newRating) on a loaded comic
Comic_updateRating(id) ==
  /\ Found(findById(id))
  /\ CountRoom(findById(id))
  /\ Complete("updateRating", id, NoUser, findById(id),
              Plan(Ok, TRUE, updateRating(findById(id))), FALSE)
  /\ UNCHANGED <<req, restVars>>

\* a findOneAndUpdate hook that counts like the save hook
postFindOneAndUpdateCounting(d) == postSave(d)

\* ComicSchema.post('findOneAndUpdate'): an empty body
postFindOneAndUpdate(d) == UNCHANGED <<genreCount, tagCount>>

\* The body of PUT /comics/:id: the fields it sets
Body(setGenres, genres, setTags, tags) ==
  [setGenres |-> setGenres, genres |-> genres, setTags |-> setTags, tags |-> tags]

\* PUT /comics/:id: Comic.findByIdAndUpdate(id, { $set: comicData })
updateComic(id, body) ==
  LET d == [findById(id) EXCEPT
              !.genres = IF body.setGenres THEN body.genres ELSE @,
              !.tags   = IF body.setTags THEN body.tags ELSE @]
  IN  /\ IF Found(findById(id))
           THEN /\ docs' = [docs EXCEPT ![id] = d]
                /\ postFindOneAndUpdate(d)
                /\ Respond("updateComic", id, NoUser, TRUE, Ok)
           ELSE /\ Respond("updateComic", id, NoUser, FALSE, NotFound)
                /\ UNCHANGED storeVars
      /\ UNCHANGED <<req, viewed, restVars>>

Bodies ==
  {Body(FALSE, {}, FALSE, {})}
    \cup {Body(TRUE, gs, FALSE, {}) : gs \in SUBSET Genres}
    \cup {Body(FALSE, {}, TRUE, ts) : ts \in SUBSET Tags}

ComicIncrementViews == \E id \in ComicIds : Comic_incrementViews(id)
ComicUpdateRating   == \E id \in ComicIds : Comic_updateRating(id)
UpdateComic         == \E id \in ComicIds, body \in Bodies : updateComic(id, body)

\* One published comic with a genre and a tag, as createComic leaves it
InitHook ==
  /\ docs = [id \in Ids |-> IF id = "c1" THEN NewComic("published", {"g1"}, {"t1"})
                            ELSE NoDoc]
  /\ genreCount = [g \in Genres |-> IF g = "g1" THEN 1 ELSE 0]
  /\ tagCount = [t \in Tags |-> 1]
  /\ req = NoReqs
  /\ last = NoResponse
  /\ viewed = [id \in Ids |-> 0]
  /\ current = 0 /\ previous = 0 /\ trend = [fn |-> "none", num |-> 0, den |-> 1]
  /\ dailyData = <<>>
  /\ NoPosts
  /\ cloud = NoCloud
  /\ NoMore

NextHook ==
  \/ LikeComic
  \/ UnlikeComic
  \/ ComicIncrementViews
  \/ ComicUpdateRating
  \/ UpdateComic
  \/ DeleteComic

\* Requests and model methods on an existing comic, one after another,
\* and its deletion
SpecHook == InitHook /\ [][NextHook]_vars

\* ------------------------------------------------------ hard delete
\* Comic.findOneAndDelete({ _id: id }) with ComicSchema.pre('findOneAndDelete'):
\* the hook loads the document of the query and sends one decrementCount per
\* genre and per tag, then the document is removed.  $inc through
\* findByIdAndUpdate runs no validator, so min: 0 is not looked at.  The
\* counters are followed down to their first negative value and no further.
Comic_findOneAndDelete(id) ==
  /\ \A g \in findById(id).genres : genreCount[g] >= 0
  /\ \A t \in findById(id).tags : tagCount[t] >= 0
  /\ IF Found(findById(id))
       THEN /\ genreCount' = decrementCount(genreCount, findById(id).genres)
            /\ tagCount' = decrementCount(tagCount, findById(id).tags)
            /\ docs' = [docs EXCEPT ![id] = NoDoc]
            /\ Respond("findOneAndDelete", id, NoUser, TRUE, Ok)
       ELSE /\ Respond("findOneAndDelete", id, NoUser, FALSE, Ok)
            /\ UNCHANGED storeVars
  /\ UNCHANGED <<req, viewed, restVars>>

\* The operations on one comic
CreateOne == \E gs \in SUBSET Genres, ts \in SUBSET Tags : createComic("c1", "published", gs, ts)
UpdateOne == \E body \in Bodies : updateComic("c1", body)
DeleteOne == deleteComic("c1")
FindOneAndDelete == Comic_findOneAndDelete("c1")

NextCascade ==
  \/ CreateOne
  \/ UpdateOne
  \/ DeleteOne
  \/ FindOneAndDelete

\* A comic created, updated, soft-deleted and hard-deleted, again and again,
\* one request after another, from empty collections
SpecCascade == InitCount /\ [][NextCascade]_vars

\* ------------------------------------------------------------------ login
\* UserController.login on one account.
LockThreshold == 5     \* this.loginAttempts + 1 >= 5
LockMinutes   == 15    \* Date.now() + 15 * 60 * 1000

Emails    == {"a@x", "nobody@x"}   \* the account's email, and one of no user
Passwords == {"right", "wrong"}

\* Every other component at rest
NoContent ==
  /\ docs = [id \in Ids |-> NoDoc]
  /\ genreCount = [g \in Genres |-> 0]
  /\ tagCount = [t \in Tags |-> 0]
  /\ req = NoReqs
  /\ last = NoResponse
  /\ viewed = [id \in Ids |-> 0]
  /\ current = 0 /\ previous = 0 /\ trend = [fn |-> "none", num |-> 0, den |-> 1]
  /\ dailyData = <<>>
  /\ NoPosts
  /\ cloud = NoCloud

\* User.findOne({ email }): the document, or null
NoUserDoc == [NewUser(FALSE) EXCEPT !.email = ""]

User_findOne(email) == IF account.email = email THEN account ELSE NoUserDoc

\* UserSchema.methods.isLocked
isLocked(this, t) == this.lockUntil # NoDate /\ this.lockUntil > t

\* UserSchema.methods.comparePassword
comparePassword(this, candidatePassword) == candidatePassword = this.password

\* UserSchema.methods.resetLoginAttempts: $set loginAttempts, $unset lockUntil
resetLoginAttempts(stored) ==
  [stored EXCEPT !.loginAttempts = 0, !.lockUntil = NoDate]

\* UserSchema.methods.incrementLoginAttempts: `this` is the copy the request
\* loaded, `stored` the document the update reaches.  $inc adds to the stored
\* counter; the decision to lock comes from the loaded one.
incrementLoginAttempts(this, stored, t) ==
  IF this.lockUntil # NoDate /\ this.lockUntil < t
    THEN resetLoginAttempts(stored)
    ELSE IF this.loginAttempts + 1 >= LockThreshold
           THEN [stored EXCEPT !.loginAttempts = @ + 1, !.lockUntil = t + LockMinutes]
           ELSE [stored EXCEPT !.loginAttempts = @ + 1]

\* The response of login: ret says whether a token was issued
LoginResponse(email, code, token) ==
  last' = Response("login", email, NoUser, token, code, "")

\* login after comparePassword: `this` is the loaded user, valid the result of
\* the comparison.
loginFinish(this, valid) ==
  IF ~valid
    THEN /\ account' = incrementLoginAttempts(this, account, now)
         /\ streak' = streak + 1
         /\ LoginResponse(this.email, BadRequest, FALSE)
    ELSE IF ~this.emailVerified
           THEN /\ LoginResponse(this.email, Forbidden, FALSE)
                /\ UNCHANGED <<account, streak>>
           ELSE /\ account' = resetLoginAttempts(account)
                /\ streak' = 0
                /\ LoginResponse(this.email, Ok, TRUE)

\* login up to comparePassword: the errors thrown before the password is
\* looked at.  "" when the request goes on.
loginReject(user) ==
  IF user = NoUserDoc THEN BadRequest
  ELSE IF isLocked(user, now) THEN Forbidden
  ELSE ""

\* UserController.login, one request at a time
login(email, password) ==
  /\ logins = EmptyBag
  /\ LET user == User_findOne(email)
     IN  IF loginReject(user) # ""
           THEN /\ LoginResponse(email, loginReject(user), FALSE)
                /\ UNCHANGED <<account, streak>>
           ELSE loginFinish(user, comparePassword(user, password))
  /\ UNCHANGED <<storeVars, req, viewed, trendVars, slugVars, cloud, now, logins, taxa,
                 errVars, subVars>>

\* Time passes.  A lock that expires ends the run of failed attempts.
Tick(d) ==
  /\ now + d <= MaxNow
  /\ now' = now + d
  /\ streak' = IF isLocked(account, now) /\ ~isLocked(account, now + d)
                 THEN 0 ELSE streak
  /\ UNCHANGED <<storeVars, req, last, viewed, trendVars, slugVars, cloud, account,
                 logins, taxa, errVars, subVars>>

Login == \E email \in Emails, password \in Passwords : login(email, password)

Pass == \E d \in {1, LockMinutes} : Tick(d)

InitLogin ==
  /\ NoContent
  /\ NoAdmin
  /\ NoErr
  /\ NoSubs
  /\ account \in {NewUser(TRUE), NewUser(FALSE)}
  /\ now = 0
  /\ logins = EmptyBag
  /\ streak = 0

NextLogin == Login \/ Pass

SpecLogin == InitLogin /\ [][NextLogin]_vars

\* Concurrent login requests: each loads the user, then awaits bcrypt; its
\* updateOne reaches the store after the loads of the others.
loginBegin(email, password) ==
  /\ BagCardinality(logins) < MaxLogins
  /\ LET user == User_findOne(email)
     IN  IF loginReject(user) # ""
           THEN /\ LoginResponse(email, loginReject(user), FALSE)
                /\ UNCHANGED logins
           ELSE /\ logins' = logins (+)
                     SetToBag({[this |-> user,
                                valid |-> comparePassword(user, password)]})
                /\ UNCHANGED last
  /\ UNCHANGED <<storeVars, req, viewed, trendVars, slugVars, cloud, account, now,
                 streak, taxa, errVars, subVars>>

loginEnd(r) ==
  /\ logins' = logins (-) SetToBag({r})
  /\ loginFinish(r.this, r.valid)
  /\ UNCHANGED <<storeVars, req, viewed, trendVars, slugVars, cloud, now, taxa, errVars,
                 subVars>>

BeginLogin == \E email \in Emails, password \in Passwords : loginBegin(email, password)

EndLogin == \E r \in BagToSet(logins) : loginEnd(r)

NextLoginRace == BeginLogin \/ EndLogin \/ Pass

SpecLoginRace == InitLogin /\ [][NextLoginRace]_vars

\* ---------------------------------------------------------- private routes
\* The routes documented "@access Private/Admin", behind the routing-controllers
\* authorization check.  A bearer token is described by what protect finds:
\* whether the header is there, whether jwt.verify accepts it, and the role of
\* the user User.findById(decoded.id) returns ("" when there is none).
Unauthorized == "401"   \* AuthorizationRequiredError of routing-controllers

Token(present, verifies, role) == [present |-> present, verifies |-> verifies, role |-> role]

Tokens ==
  {Token(FALSE, FALSE, ""), Token(TRUE, FALSE, ""), Token(TRUE, TRUE, ""),
   Token(TRUE, TRUE, "user"), Token(TRUE, TRUE, "admin")}

\* protect: the authorizationChecker.  The roles argument is not read.
protect(token) ==
  IF ~token.present THEN FALSE
  ELSE IF ~token.verifies THEN FALSE
  ELSE token.role # ""

\* protect followed by the role check of authorize('admin')
protectAdmin(token) == token.present /\ token.verifies /\ token.role = "admin"

\* The routes and whether the handler carries @Authorized()
AdminRoutes ==
  {"createBlogPost", "updateBlogPost", "deleteBlogPost", "getStats",
   "createTag", "updateTag", "deleteTag", "createGenre", "updateGenre", "deleteGenre"}

Authorized(route) == route \in {"updateBlogPost", "deleteBlogPost", "getStats"}

\* The Tag and Genre collections: id -> description, NoTaxon when there is no
\* such document
NoTaxon      == "none"
Descriptions == {"d1", "d2"}

adminFrame == <<storeVars, req, viewed, trendVars, slugVars, cloud, authVars, errVars,
               subVars>>

AdminRespond(route, id, code, err) ==
  last' = Response(route, id, NoUser, code \in {Ok, Created}, code, err)

\* Comic.countDocuments({ tags: id }) / ({ genres: id })
countDocuments(id) ==
  Cardinality({c \in ComicIds : id \in docs[c].tags \cup docs[c].genres})

\* TagController.createTag: Tag.create; the name is unique
createTag(id, description) ==
  /\ IF taxa[id] # NoTaxon
       THEN /\ AdminRespond("createTag", id, ServerError, "DuplicateKey")
            /\ UNCHANGED taxa
       ELSE /\ taxa' = [taxa EXCEPT ![id] = description]
            /\ AdminRespond("createTag", id, Created, "")
  /\ UNCHANGED adminFrame

\* GenreController.createGenre
createGenre(id, description) ==
  /\ IF taxa[id] # NoTaxon
       THEN /\ AdminRespond("createGenre", id, BadRequest, "")
            /\ UNCHANGED taxa
       ELSE /\ taxa' = [taxa EXCEPT ![id] = description]
            /\ AdminRespond("createGenre", id, Created, "")
  /\ UNCHANGED adminFrame

\* TagController.updateTag / GenreController.updateGenre
updateTaxon(route, id, description) ==
  /\ IF taxa[id] = NoTaxon
       THEN /\ AdminRespond(route, id, ServerError, "Error")
            /\ UNCHANGED taxa
       ELSE /\ taxa' = [taxa EXCEPT ![id] = description]
            /\ AdminRespond(route, id, Ok, "")
  /\ UNCHANGED adminFrame

\* TagController.deleteTag / GenreController.deleteGenre
deleteTaxon(route, id) ==
  /\ IF taxa[id] = NoTaxon \/ countDocuments(id) > 0
       THEN /\ AdminRespond(route, id, ServerError, "Error")
            /\ UNCHANGED taxa
       ELSE /\ taxa' = [taxa EXCEPT ![id] = NoTaxon]
            /\ AdminRespond(route, id, Ok, "")
  /\ UNCHANGED adminFrame

\* SubscriberController.getStats: a read
getStats ==
  /\ AdminRespond("getStats", "", Ok, "")
  /\ UNCHANGED <<adminFrame, taxa>>

\* The handler of a route, with the parameters and bodies tried
AdminTitles == {NoString, <<"a">>}
AdminGenres == {"g1"}

Handler(route) ==
  \/ /\ route = "createBlogPost"
     /\ \E title \in AdminTitles : createBlogPost(title)
  \/ /\ route = "updateBlogPost"
     /\ \E i \in 1..MaxPosts, title \in AdminTitles : updateBlogPost(i, title, NoString)
  \/ /\ route = "deleteBlogPost"
     /\ \E i \in 1..MaxPosts : archiveBlogPost(i)
  \/ /\ route = "getStats"
     /\ getStats
  \/ /\ route = "createTag"
     /\ \E id \in Tags, d \in Descriptions : createTag(id, d)
  \/ /\ route = "updateTag"
     /\ \E id \in Tags, d \in Descriptions : updateTaxon("updateTag", id, d)
  \/ /\ route = "deleteTag"
     /\ \E id \in Tags : deleteTaxon("deleteTag", id)
  \/ /\ route = "createGenre"
     /\ \E id \in AdminGenres, d \in Descriptions : createGenre(id, d)
  \/ /\ route = "updateGenre"
     /\ \E id \in AdminGenres, d \in Descriptions : updateTaxon("updateGenre", id, d)
  \/ /\ route = "deleteGenre"
     /\ \E id \in AdminGenres : deleteTaxon("deleteGenre", id)

\* The authorization check fails: the handler does not run
Deny(route) ==
  /\ last' = Response(route, "", NoUser, FALSE, Unauthorized, "AuthorizationRequiredError")
  /\ UNCHANGED <<adminFrame, taxa>>

\* A request to a route with a bearer token: protect runs where the handler
\* is decorated, and the handler runs when protect passes
Request(route, token) ==
  \/ /\ Authorized(route) /\ ~protect(token)
     /\ Deny(route)
  \/ /\ ~(Authorized(route) /\ ~protect(token))
     /\ Handler(route)

Route(route) == \E token \in Tokens : Request(route, token)

InitAdmin ==
  /\ NoContent
  /\ NoAuth
  /\ NoErr
  /\ NoSubs
  /\ taxa = [id \in Tags \cup AdminGenres |-> NoTaxon]

NextAdmin ==
  \/ Route("createBlogPost")
  \/ Route("updateBlogPost")
  \/ Route("deleteBlogPost")
  \/ Route("getStats")
  \/ Route("createTag")
  \/ Route("updateTag")
  \/ Route("deleteTag")
  \/ Route("createGenre")
  \/ Route("updateGenre")
  \/ Route("deleteGenre")

SpecAdmin == InitAdmin /\ [][NextAdmin]_vars

\* ---------------------------------------------------------- error handler
\* AppErrorHandler.error(err, req, res, next)
\* res.json on the response object r: Express sends the first response;
\* res.json on a response whose headers are sent throws ERR_HTTP_HEADERS_SENT.
res_json(r, code, message) ==
  IF r.sent # <<>>
    THEN [r EXCEPT !.thrown = TRUE]
    ELSE [r EXCEPT !.sent = <<[code |-> code, message |-> message]>>]

\* AppErrorHandler.isClassValidatorErrors
isClassValidatorErrors(errors) ==
  IF ~errors.array THEN FALSE
  ELSE IF Len(errors.items) = 0 THEN FALSE
  ELSE /\ errors.items[1].object
       /\ "property" \in errors.items[1].keys
       /\ "constraints" \in errors.items[1].keys

\* const status = err instanceof ApiError ? err.statusCode : (err.httpCode || 500)
errorStatus(err) == IF err.api THEN err.statusCode ELSE status(err)

\* AppErrorHandler.error: the 400 of a validation error is followed by the
\* general response; nothing returns in between.
AppErrorHandler_error(err, r) ==
  LET first == IF err.errors.defined /\ isClassValidatorErrors(err.errors)
                 THEN res_json(r, BadRequest, "Invalid Request Parameters")
                 ELSE r
  IN  res_json(first, errorStatus(err),
               IF err.message # "" THEN err.message ELSE "Internal Server Error")

\* The errors tried
ErrorArrays ==
  {NoErrors, NotArray, ArrayOf(<<>>), ArrayOf(<<NotObject>>),
   ArrayOf(<<Object({"property"})>>), ArrayOf(<<Object({"constraints"})>>),
   ArrayOf(<<ValidationError>>), ArrayOf(<<ValidationError, NotObject>>)}

Faults ==
  {AnError(FALSE, "", h, m, e) :
     h \in {"", BadRequest, Forbidden, NotFound}, m \in {"", "m"}, e \in ErrorArrays}
  \cup {AnError(TRUE, c, "", m, e) :
     c \in {BadRequest, NotFound, ServerError}, m \in {"", "m"}, e \in ErrorArrays}

\* An error reaches the handler
HandleError ==
  /\ res = NoRes
  /\ res' = AppErrorHandler_error(fault, res)
  /\ UNCHANGED <<storeVars, req, last, viewed, trendVars, slugVars, cloud, authVars,
                 taxa, fault, subVars>>

InitError ==
  /\ NoContent
  /\ NoAuth
  /\ NoAdmin
  /\ NoSubs
  /\ fault \in Faults
  /\ res = NoRes

NextError == HandleError

SpecError == InitError /\ [][NextError]_vars

\* ------------------------------------------------------------ subscribers
\* The EmailSubscriber collection, keyed by email, and the newsletter routes.
\* randomBytes(32).toString('hex') is a fresh value: the verification token
\* minted for the subscriber of email e is VerificationTokenOf[e] (a subscriber
\* is created once and gets one).
SubEmails == {"e1", "e2"}

VerificationTokenOf == [e \in SubEmails |-> IF e = "e1" THEN "v1" ELSE "v2"]

VerifyMinutes == 24 * 60    \* Date.now() - 24 * 60 * 60 * 1000

\* `${x}` in a template literal
TemplateOf(x) == IF x = NoToken THEN "undefined" ELSE x

\* The tokens a route parameter carries: the minted ones, a stranger's, and
\* the text of an unset field
RouteTokens == {VerificationTokenOf[e] : e \in SubEmails} \cup {"bogus", "undefined"}

\* EmailSubscriber.create({ email, .. }) with the schema defaults
NewSubscriber(email) ==
  [NoSubscriber EXCEPT !.email = email, !.isVerified = FALSE, !.isSubscribed = TRUE]

\* EmailSubscriberSchema.methods.generateVerificationToken
generateVerificationToken(this, t) ==
  [this EXCEPT !.verificationToken = VerificationTokenOf[this.email],
               !.verificationSentAt = t]

\* EmailSubscriberSchema.methods.generateUnsubscribeToken (called nowhere)
generateUnsubscribeToken(this) == [this EXCEPT !.unsubscribeToken = "u"]

\* a verify that keeps the token
verifyKeepingToken(this) == [this EXCEPT !.isVerified = TRUE]

\* EmailSubscriberSchema.methods.verify
verify(this) == [this EXCEPT !.isVerified = TRUE, !.verificationToken = NoToken]

\* EmailSubscriberSchema.methods.unsubscribe
Subscriber_unsubscribe(this) == [this EXCEPT !.isSubscribed = FALSE]

\* sendVerificationEmail(subscriber): the two URLs it builds
sendVerificationEmail(subscriber) ==
  mail' = mail \cup {[to |-> subscriber.email,
                      verificationUrl |-> TemplateOf(subscriber.verificationToken),
                      unsubscribeUrl |-> TemplateOf(subscriber.unsubscribeToken)]}

subFrame == <<storeVars, req, viewed, trendVars, slugVars, cloud, authVars, taxa, errVars>>

SubRespond(route, id, code, err) ==
  last' = Response(route, id, NoUser, code \in {Ok, Created}, code, err)

\* POST /subscribers
subscribe(email) ==
  /\ LET subscriber == subs[email]
     IN  IF subscriber.email # ""
           THEN IF subscriber.isSubscribed /\ subscriber.isVerified
                  THEN UNCHANGED <<subs, mail>>
                  ELSE LET again == IF ~subscriber.isSubscribed
                                      THEN [subscriber EXCEPT !.isSubscribed = TRUE]
                                      ELSE subscriber
                       IN  /\ subs' = [subs EXCEPT ![email] = again]
                           /\ IF ~again.isVerified
                                THEN sendVerificationEmail(again)
                                ELSE UNCHANGED mail
           ELSE LET created == generateVerificationToken(NewSubscriber(email), now)
                IN  /\ subs' = [subs EXCEPT ![email] = created]
                    /\ sendVerificationEmail(created)
  /\ SubRespond("subscribe", email, Created, "")
  /\ UNCHANGED subFrame

\* EmailSubscriber.findOne({ verificationToken: token,
\*                           verificationSentAt: { $gt: now - 24 h } })
findByVerificationToken(token, t) ==
  {e \in SubEmails : /\ subs[e].email # ""
                     /\ subs[e].verificationToken = token
                     /\ subs[e].verificationSentAt > t - VerifyMinutes}

\* EmailSubscriber.findOne({ unsubscribeToken: token })
findByUnsubscribeToken(token) ==
  {e \in SubEmails : subs[e].email # "" /\ subs[e].unsubscribeToken = token}

\* GET /subscribers/verify/:token
verifyEmail(token) ==
  /\ LET found == findByVerificationToken(token, now)
     IN  IF found = {}
           THEN /\ SubRespond("verifyEmail", token, status(PlainError), "Error")
                /\ UNCHANGED subs
           ELSE LET e == CHOOSE x \in found : TRUE
                IN  /\ subs' = [subs EXCEPT ![e] = verify(@)]
                    /\ SubRespond("verifyEmail", token, Ok, "")
  /\ UNCHANGED <<subFrame, mail>>

\* GET /subscribers/unsubscribe/:token
unsubscribe(token) ==
  /\ LET found == findByUnsubscribeToken(token)
     IN  IF found = {}
           THEN /\ SubRespond("unsubscribe", token, status(PlainError), "Error")
                /\ UNCHANGED subs
           ELSE LET e == CHOOSE x \in found : TRUE
                IN  /\ subs' = [subs EXCEPT ![e] = Subscriber_unsubscribe(@)]
                    /\ SubRespond("unsubscribe", token, Ok, "")
  /\ UNCHANGED <<subFrame, mail>>

\* Time passes to a later instant
Instants == {0, 1, VerifyMinutes - 1, VerifyMinutes, VerifyMinutes + 1, 2 * VerifyMinutes}

Later(t) ==
  /\ t > now
  /\ now' = t
  /\ UNCHANGED <<storeVars, req, last, viewed, trendVars, slugVars, cloud, account,
                 logins, streak, taxa, errVars, subVars>>

Subscribe   == \E email \in SubEmails : subscribe(email)
VerifyEmail == \E token \in RouteTokens : verifyEmail(token)
Unsubscribe == \E token \in RouteTokens : unsubscribe(token)
Wait        == \E t \in Instants : Later(t)

\* No subscriber yet
InitSubscribe ==
  /\ NoContent
  /\ NoAuth
  /\ NoAdmin
  /\ NoErr
  /\ subs = [e \in SubEmails |-> NoSubscriber]
  /\ mail = {}

NextSubscribe ==
  \/ Subscribe
  \/ VerifyEmail
  \/ Unsubscribe
  \/ Wait

SpecSubscribe == InitSubscribe /\ [][NextSubscribe]_vars

\* ------------------------------------------------------- blog rankings
\* The filter { status: 'published', deletedAt: { $exists: false } } of
\* getPopularPosts and getTrendingPosts with period = 'all'
RankedVisible(d) == Found(d) /\ d.status = "published" /\ d.deletedAt = "missing"

\* The $match { deletedAt: { $exists: false } } of getBlogOverviewStats
CountedVisible(d) == Found(d) /\ d.deletedAt = "missing"

findRankedPosts == {id \in BlogIds : RankedVisible(docs[id])}

findCountedPosts == {id \in BlogIds : CountedVisible(docs[id])}

\* The answer of a blog read that matched the posts in found
RankedResponse(route, found) ==
  [Response(route, "", NoUser, TRUE, Ok, "") EXCEPT !.data = found]

\* GET /blogs/popular?period=all
getPopularPosts ==
  /\ last' = RankedResponse("getPopularPosts", findRankedPosts)
  /\ UNCHANGED <<storeVars, req, viewed, restVars>>

\* GET /blogs/trending?period=all
getTrendingPosts ==
  /\ last' = RankedResponse("getTrendingPosts", findRankedPosts)
  /\ UNCHANGED <<storeVars, req, viewed, restVars>>

\* GET /blogs/stats/overview: the posts that totalPosts counts
getBlogOverviewStats ==
  /\ last' = RankedResponse("getBlogOverviewStats", findCountedPosts)
  /\ UNCHANGED <<storeVars, req, viewed, restVars>>

NextBlogRead ==
  \/ getBlogPosts
  \/ getPopularPosts
  \/ getTrendingPosts
  \/ getBlogOverviewStats
  \/ LikeBlogPost
  \/ UnlikeBlogPost
  \/ ViewBlogPost
  \/ DeleteBlogPost

\* The blog lists, rankings and statistics of a post that is liked, viewed
\* and deleted
SpecBlogRead == InitSeq /\ [][NextBlogRead]_vars

\* ================================================================ claims

\* C1: for every Comic and BlogPost, after any sequence of like and unlike
\* requests handled one after another from likes = 0 and likedBy empty,
\* likes equals the number of identifiers in likedBy.
C1_LikesEqualsLikedBy ==
  \A id \in Ids : docs[id].likes = Len(docs[id].likedBy)

\* C1 reached: a successful unlike after two likes
C1_Witness ==
  /\ last.op = "unlike" /\ last.ret
  /\ docs[last.id].likes = 1 /\ Len(docs[last.id].likedBy) = 1

\* C2: under any interleaving of concurrent like requests on one document a
\* user is never counted twice: once the requests have completed, likedBy
\* holds each user at most once and likes counts no user twice.
C2_NoDoubleCount ==
  AllIdle =>
    \A id \in Ids :
      /\ \A u \in Users : Count(docs[id].likedBy, u) <= 1
      /\ docs[id].likes <= Cardinality({u \in Users : Includes(docs[id].likedBy, u)})

\* C3: the stored likes counter is never negative, under every interleaving
\* of like and unlike requests.
C3_LikesNeverNegative == \A id \in Ids : docs[id].likes >= 0

\* C3 reached: an unlike whose decrement would have stored -1 was rejected
\* by the min: 0 validator
C3_Witness ==
  /\ last.op = "unlike" /\ last.err = "ValidationError"
  /\ docs[last.id].likes = 0
  /\ Includes(docs[last.id].likedBy, last.user)

\* C4: like is idempotent: a like(u) request that directly follows a
\* like(u) request on the same document changes neither likes nor likedBy
\* and returns false.
C4_LikeIdempotent ==
  [][(/\ last.op = "like" /\ last.code = Ok
      /\ last'.op = "like" /\ last'.id = last.id /\ last'.user = last.user)
       => /\ docs'[last.id].likes = docs[last.id].likes
          /\ docs'[last.id].likedBy = docs[last.id].likedBy
          /\ last'.code = Ok /\ ~last'.ret]_vars

\* C4 reached: a like by a user who had already liked
C4_Witness ==
  /\ last.op = "like" /\ last.code = Ok /\ ~last.ret
  /\ Includes(docs[last.id].likedBy, last.user)

\* C5: like(u) returns true exactly when u was not in likedBy before the
\* call, unlike(u) exactly when u was; a call that returns false raises no
\* error and leaves the document unchanged.
C5_ReturnValues ==
  [][\A op \in {"like", "unlike"} :
       (/\ last'.op = op /\ last'.user # NoUser
        /\ Found(docs[last'.id])
        /\ op = "like" => docs[last'.id].status = "published")
         => LET was == Includes(docs[last'.id].likedBy, last'.user) IN
            /\ last'.code = Ok
            /\ last'.ret = (IF op = "like" THEN ~was ELSE was)
            /\ ~last'.ret => docs' = docs]_vars

\* C5 reached: an unlike by a user who never liked answered 200, false
C5_Witness ==
  /\ last.op = "unlike" /\ last.code = Ok /\ ~last.ret
  /\ last.user \in Users
  /\ ~Includes(docs[last.id].likedBy, last.user)

\* C7: view increments are never lost: once n concurrent view requests on a
\* document have completed, views has increased by exactly n.
C7_NoLostViews ==
  AllIdle => \A id \in Ids : docs[id].views = viewed[id]

\* C8: every qualifying view request handled in sequence raises views by
\* exactly 1, whoever the viewer: views equals the number of view requests
\* answered 200.
C8_ViewsCountEveryView ==
  \A id \in Ids : docs[id].views = viewed[id]

\* C8 reached: a second counted view of the same document
C8_Witness ==
  /\ last.op = "view" /\ last.code = Ok
  /\ docs[last.id].views = 2

\* C9: hasLiked is a pure lookup: getLikeStatus returns true exactly when
\* the user is in likedBy and changes no stored state.
C9_HasLikedPure ==
  [][last'.op = "hasLiked"
       => /\ docs' = docs /\ genreCount' = genreCount /\ tagCount' = tagCount
          /\ viewed' = viewed /\ req' = req
          /\ (last'.user # NoUser /\ Found(docs[last'.id]))
               => /\ last'.code = Ok
                  /\ last'.ret = Includes(docs[last'.id].likedBy, last'.user)]_vars

\* C9 reached: a lookup answered false on a document another user has liked
C9_Witness ==
  /\ last.op = "hasLiked" /\ last.code = Ok /\ ~last.ret
  /\ docs[last.id].likes = 1

\* C6: for every Genre and Tag, comicCount equals the number of comics that
\* reference it and are not deleted, after any sequence of createComic and
\* deleteComic requests.
C6_CountMatchesReferences ==
  /\ \A g \in Genres : genreCount[g] = Cardinality(Referencing(g))
  /\ \A t \in Tags : tagCount[t] = Cardinality(Referencing(t))

\* The exact trend of two counts: (current - previous) / previous * 100 when
\* previous > 0, else 100 when current > 0, else 0
ExactTrend(cur, prev) ==
  IF prev > 0 THEN Rat((cur - prev) * 100, prev)
  ELSE IF cur > 0 THEN Rat(100, 1)
  ELSE Rat(0, 1)

\* The cases the specification enumerates
TrendCases ==
  /\ (current = 0 /\ previous = 0) => RatEq(trend, Rat(0, 1))
  /\ (current = 5 /\ previous = 0) => RatEq(trend, Rat(100, 1))
  /\ (current = 10 /\ previous = 5) => RatEq(trend, Rat(100, 1))
  /\ (current = 5 /\ previous = 10) => RatEq(trend, Rat(0 - 50, 1))

\* C10 as stated: every computed trend is exactly the trend formula, and no
\* input divides by zero.
C10_TrendExact ==
  trend.fn # "none" =>
    /\ trend.den # 0
    /\ RatEq(trend, ExactTrend(current, previous))
    /\ TrendCases

\* C10 amended: getGrowthStats returns exactly the trend formula;
\* getComparativeStats returns it rounded to one decimal place (a multiple
\* of 0.1 at most 0.05 away); the enumerated cases hold for both and no
\* input divides by zero.
C10_TrendRounded ==
  LET exact == ExactTrend(current, previous) IN
  /\ trend.fn # "none" => trend.den # 0 /\ TrendCases
  /\ trend.fn = "getGrowthStats" => RatEq(trend, exact)
  /\ trend.fn = "getComparativeStats" =>
       /\ RatEq(Rat(trend.num * 10, trend.den), Rat((trend.num * 10) \div trend.den, 1))
       /\ 20 * Abs(trend.num * exact.den - exact.num * trend.den)
            <= Abs(trend.den * exact.den)

\* C10 reached: a trend that is no multiple of 0.1 before rounding
C10_Witness ==
  /\ trend.fn = "getComparativeStats"
  /\ current = 1 /\ previous = 3
  /\ RatEq(trend, Rat(0 - 667, 10))

\* t is `exact` rounded to one decimal place: a multiple of 0.1 at most
\* 0.05 away
RoundedTrend(t, exact) ==
  /\ t.den # 0
  /\ (t.num * 10) % t.den = 0
  /\ 20 * Abs(t.num * exact.den - exact.num * t.den) <= Abs(t.den * exact.den)

\* The total of the window of `width` entries that ends `back` entries
\* before the end of the series; days before the series began count 0
WindowTotal(data, width, back) == Sum(Slice(data, 0 - (back + width), 0 - back))

\* C11: every trend figure of the dashboard (comics, blogs, subscribers,
\* likes, and viewsTrend from a daily series of any length) is the trend
\* formula applied to the total of the trailing window and the total of the
\* preceding window of equal length, rounded to one decimal place.
C11_TrendUniform ==
  /\ trend.fn \in {"getComparativeStats", "getSubscriberGrowthStats", "calculateLikesTrend"}
       => RoundedTrend(trend, ExactTrend(current, previous))
  /\ trend.fn = "calculateTrendFromDailyData"
       => RoundedTrend(trend, ExactTrend(Sum(Slice(dailyData, 0 - 7, 0)),
                                         WindowTotal(dailyData, 7, 7)))

\* The slug the specification prescribes: the base slug when no post has
\* it, otherwise base-k for the smallest k >= 1 that no post has
ExpectedSlug(base, taken) ==
  IF base \notin taken THEN base
  ELSE LET free == {k \in 1..(Cardinality(taken) + 1) :
                      base \o <<"-">> \o Digits(k) \notin taken}
       IN  base \o <<"-">> \o Digits(CHOOSE k \in free : \A j \in free : k <= j)

\* C12: after any sequence of createBlogPost and updateBlogPost requests
\* handled one after another, no two stored blog posts, soft-deleted ones
\* included, share a slug; and generateUniqueSlug returned the base slug
\* when no post had it, otherwise base-k for the smallest k >= 1 such that
\* no post had base-k.
C12_SlugsUnique ==
  /\ \A i, j \in 1..Len(posts) : posts[i].slug = posts[j].slug => i = j
  /\ probe.title # NoString
       => probe.slug = ExpectedSlug(BaseSlug(probe.title), probe.taken)

\* C12 reached: a retitled post got the suffix 2, the base slug being held
\* by a soft-deleted post and the suffix 1 by the retitled post itself
C12_Witness ==
  /\ Len(posts) = 2
  /\ posts[1].deleted /\ posts[1].slug = <<"a">>
  /\ posts[2].slug = <<"a", "-", "2">>
  /\ probe.slug = <<"a", "-", "2">> /\ probe.taken = {<<"a">>, <<"a", "-", "1">>}

\* C13: two concurrent createBlogPost requests with the same title never
\* hold the same slug from generateUniqueSlug, however the probes and the
\* inserts interleave.
C13_NoSharedSlug ==
  \A r \in BagToSet(inserts) :
    /\ inserts[r] = 1
    /\ \A q \in BagToSet(inserts) : q.slug = r.slug => q = r

\* The largest comicCount among the returned tags
LargestReturned ==
  CHOOSE m \in {cloud.data[i].comicCount : i \in DOMAIN cloud.data} :
    \A i \in DOMAIN cloud.data : cloud.data[i].comicCount <= m

\* C14: for every tag returned by getTagCloud, fontSize is the rounded value
\* of 12 + ((comicCount - minCount) / divisor) * 20 with divisor =
\* max(maxCount - minCount, 1), minCount the floor of the query and maxCount
\* the largest comicCount among the returned tags; the divisor is never 0.
C14_FontSizeFormula ==
  /\ cloud.divisor # 0
  /\ \A i \in DOMAIN cloud.data :
       LET span    == LargestReturned - cloud.minCount
           divisor == IF span > 1 THEN span ELSE 1
           twice   == 2 * (12 * divisor + (cloud.data[i].comicCount - cloud.minCount) * 20)
       IN  /\ (2 * cloud.data[i].fontSize - 1) * divisor <= twice
           /\ twice <= (2 * cloud.data[i].fontSize + 1) * divisor

\* C15: within one getTagCloud response, font size is monotonically
\* non-decreasing in comicCount.
C15_FontSizeMonotone ==
  \A i, j \in DOMAIN cloud.data :
    cloud.data[i].comicCount <= cloud.data[j].comicCount
      => cloud.data[i].fontSize <= cloud.data[j].fontSize

\* C15 reached: three returned tags with three different counts and sizes
C15_Witness ==
  /\ Len(cloud.data) = 3
  /\ cloud.data[1].comicCount > cloud.data[2].comicCount
  /\ cloud.data[2].comicCount > cloud.data[3].comicCount
  /\ cloud.data[1].fontSize > cloud.data[2].fontSize
  /\ cloud.data[2].fontSize > cloud.data[3].fontSize

\* C16: every fontSize returned by getTagCloud lies in [12, 32], for every
\* minCount and limit of the query and every stored set of comicCount values.
C16_FontSizeInRange ==
  \A i \in DOMAIN cloud.data :
    12 <= cloud.data[i].fontSize /\ cloud.data[i].fontSize <= 32

\* C16 reached: a response to a negative minCount that holds a tag at the
\* top of the range and a tag strictly inside it
C16_Witness ==
  /\ cloud.minCount < 0
  /\ \E i, j \in DOMAIN cloud.data :
       /\ cloud.data[i].fontSize = 32
       /\ 12 < cloud.data[j].fontSize /\ cloud.data[j].fontSize < 32

\* C17: a request that names a comic, blog post, genre or tag that does not
\* exist is answered 404, never 500 or a success status.
C17_NotFoundIs404 ==
  /\ (last.op = "getGenre" /\ last.id \notin DOMAIN genreCount) => last.code = NotFound
  /\ (last.op = "getTag" /\ last.id \notin DOMAIN tagCount) => last.code = NotFound
  /\ (last.op \in {"view", "delete"} /\ ~Found(docs[last.id])) => last.code = NotFound

\* C18: deletion is soft: after a successful deleteComic or deleteBlogPost
\* the record is still stored, with deletedAt set; and from then on the
\* by-slug read answers not-found and the list endpoints do not return it.
C18_SoftDelete ==
  [][/\ (last'.op = "delete" /\ last'.code = Ok)
          => Found(docs'[last'.id]) /\ docs'[last'.id].deletedAt = "date"
     /\ \A id \in Ids :
          (Found(docs[id]) /\ docs[id].deletedAt = "date") =>
            /\ Found(docs'[id]) /\ docs'[id].deletedAt = "date"
            /\ (last'.op = "view" /\ last'.id = id) => last'.code = NotFound
            /\ last'.op \in {"getComics", "getBlogPosts"} => id \notin last'.data]_vars

\* C18 reached: a list of comics that leaves out the deleted comic, which
\* had been viewed before
C18_Witness ==
  /\ last.op = "getComics" /\ last.data = {}
  /\ Found(docs["c1"]) /\ docs["c1"].deletedAt = "date" /\ docs["c1"].views > 0

\* C19: the count hooks fire only on creation and deletion of a Comic:
\* likeComic, unlikeComic, Comic.incrementViews and Comic.updateRating on an
\* existing comic leave comicCount of every Genre and Tag unchanged.
C19_HooksOnlyOnCreateDelete ==
  [][last'.op \in {"like", "unlike", "incrementViews", "updateRating"}
       => genreCount' = genreCount /\ tagCount' = tagCount]_vars

\* comicCount of genre or tag x minus the number of non-deleted comics of
\* the store ds that reference x
Drift(count, ds, x) ==
  count[x] - Cardinality({id \in ComicIds : /\ Found(ds[id])
                                            /\ ds[id].deletedAt # "date"
                                            /\ x \in ds[id].genres \cup ds[id].tags})

\* C20: updateComic bypasses the counter hooks: it leaves comicCount of every
\* Genre and Tag unchanged even when it replaces the comic's genres or tags,
\* so the counts of the genres and tags it adds to or removes from a comic
\* that is not deleted drift from the true reference counts.
C20_UpdateBypassesHooks ==
  [][last'.op = "updateComic"
       => /\ genreCount' = genreCount /\ tagCount' = tagCount
          /\ docs[last'.id].deletedAt # "date" =>
               /\ \A g \in Genres :
                    (g \in docs[last'.id].genres) # (g \in docs'[last'.id].genres)
                      => Drift(genreCount', docs', g) # Drift(genreCount, docs, g)
               /\ \A t \in Tags :
                    (t \in docs[last'.id].tags) # (t \in docs'[last'.id].tags)
                      => Drift(tagCount', docs', t) # Drift(tagCount, docs, t)]_vars

\* C20 reached: an update moved the comic from genre g1 to g2 and the counts
\* still say g1
C20_Witness ==
  /\ last.op = "updateComic" /\ last.code = Ok
  /\ docs[last.id].deletedAt # "date"
  /\ docs[last.id].genres = {"g2"}
  /\ genreCount["g1"] = 1 /\ genreCount["g2"] = 0

\* C21: after 5 failed password attempts in a row (one request at a time, no
\* successful login and no lock expiry in between) the account is locked, and
\* every login on the locked account, whatever its password, is answered
\* Forbidden, issues no token and changes nothing.
C21_LockAfterFive ==
  /\ [](streak >= LockThreshold => isLocked(account, now))
  /\ [][\A password \in Passwords :
          login(account.email, password) /\ isLocked(account, now)
            => /\ last'.code = Forbidden
               /\ ~last'.ret
               /\ account' = account]_vars

\* C25: under every interleaving of login requests, a stored loginAttempts of
\* 5 or more comes with a lockUntil.
C25_ThresholdLocks ==
  account.loginAttempts >= LockThreshold => account.lockUntil # NoDate

\* C26: every login with the correct password on an account that is not
\* locked leaves loginAttempts = 0 and no lockUntil, whatever it answers.
C26_CorrectPasswordResets ==
  [][login(account.email, account.password) /\ ~isLocked(account, now)
       => account'.loginAttempts = 0 /\ account'.lockUntil = NoDate]_vars

\* The like / unlike request of user u on document id, as one step
LikeStep(id, u) == IF id \in ComicIds THEN likeComic(id, u) ELSE likeBlogPost(id, u)

UnlikeStep(id, u) == IF id \in ComicIds THEN unlikeComic(id, u) ELSE unlikeBlogPost(id, u)

\* C22: a like request (with a user identifier) on a comic or blog post whose
\* status is not 'published' is answered 403, and a like or unlike request
\* without a user identifier is answered 400; both leave the documents, and
\* so likes and likedBy, as they were.
C22_RejectedLikeUnchanged ==
  [][\A id \in Ids :
       /\ \A u \in Users :
            LikeStep(id, u) /\ Found(docs[id]) /\ docs[id].status # "published"
              => last'.code = Forbidden /\ docs' = docs
       /\ LikeStep(id, NoUser) \/ UnlikeStep(id, NoUser)
            => last'.code = BadRequest /\ docs' = docs]_vars

\* a like was answered 403 on a document that is not published and has a like
C22_Witness ==
  /\ last.op = "like" /\ last.code = Forbidden /\ last.user \in Users
  /\ docs[last.id].status # "published"
  /\ docs[last.id].likes = 1
  /\ ~Includes(docs[last.id].likedBy, last.user)

\* C23: a request to a route documented Private/Admin that does not carry a
\* valid bearer token of an existing admin is not answered with success and
\* changes neither the tags and genres nor the blog posts.
C23_AdminOnly ==
  [][\A route \in AdminRoutes, token \in Tokens :
       Request(route, token) /\ ~protectAdmin(token)
         => ~last'.ret /\ UNCHANGED <<taxa, posts>>]_vars

\* C24: Genre.comicCount and Tag.comicCount are never negative, whatever the
\* sequence of comic creations, updates, soft deletes and findOneAndDelete.
C24_CountsNonNegative ==
  /\ \A g \in Genres : genreCount[g] >= 0
  /\ \A t \in Tags : tagCount[t] >= 0

\* C27: AppErrorHandler.error writes exactly one response for every error: for
\* a class-validator validation error the 400 'Invalid Request Parameters' and
\* nothing else, for every other error one response with the error's status
\* (500 when it has none); no write comes after the first.
C27_OneResponse ==
  res # NoRes =>
    /\ Len(res.sent) = 1
    /\ ~res.thrown
    /\ res.sent[1].code =
         IF isClassValidatorErrors(fault.errors) THEN BadRequest ELSE errorStatus(fault)
    /\ isClassValidatorErrors(fault.errors)
         => res.sent[1].message = "Invalid Request Parameters"

\* The subscribers whose verification token was `token` and has been used
Spent(token) ==
  {e \in SubEmails : VerificationTokenOf[e] = token /\ subs[e].isVerified}

\* C28: a verification token is single-use.  A verifyEmail that succeeds
\* leaves its subscriber verified and without verificationToken; a verifyEmail
\* with a token that was used, that matches no subscriber, or that was sent
\* 24 hours ago or more fails and changes no subscriber.
C28_TokenSingleUse ==
  [][\A token \in RouteTokens :
       verifyEmail(token) =>
         /\ last'.ret =>
              \E e \in SubEmails :
                /\ subs[e].verificationToken = token
                /\ ~subs[e].isVerified
                /\ subs'[e].isVerified
                /\ subs'[e].verificationToken = NoToken
                /\ \A o \in SubEmails \ {e} : subs'[o] = subs[o]
         /\ Spent(token) # {} => ~last'.ret /\ subs' = subs
         /\ (\A e \in SubEmails : subs[e].verificationToken # token)
              => ~last'.ret /\ subs' = subs
         /\ (\A e \in SubEmails :
               subs[e].verificationToken = token
                 => now - subs[e].verificationSentAt >= VerifyMinutes)
              => ~last'.ret /\ subs' = subs]_vars

\* a used token was presented again, within its 24 hours, and refused
C28_Witness ==
  /\ last.op = "verifyEmail" /\ ~last.ret
  /\ Spent(last.id) # {}
  /\ \A e \in Spent(last.id) : now - subs[e].verificationSentAt < VerifyMinutes

\* C29: every verification email subscribe sends goes to a subscriber that
\* has an unsubscribeToken, which the unsubscribe link of the email carries,
\* so that the unsubscribe route finds the subscriber by it.
C29_MailCarriesUnsubscribeToken ==
  \A m \in mail :
    /\ subs[m.to].unsubscribeToken # NoToken
    /\ m.unsubscribeUrl = subs[m.to].unsubscribeToken
    /\ findByUnsubscribeToken(m.unsubscribeUrl) = {m.to}

\* The blog reads the claim compares with getBlogPosts
RankedReads == {"getPopularPosts", "getTrendingPosts", "getBlogOverviewStats"}

\* C30: a published blog post that was never deleted is returned by
\* getPopularPosts and getTrendingPosts (period = all) and counted by
\* getBlogOverviewStats exactly when getBlogPosts returns it, and a
\* soft-deleted post is in none of the four answers.
C30_SameNotDeleted ==
  \A id \in BlogIds :
    /\ ( /\ Found(docs[id])
         /\ docs[id].status = "published"
         /\ docs[id].deletedAt # "date"
         /\ last.op \in RankedReads )
         => (id \in last.data <=> id \in findBlogPosts)
    /\ ( /\ Found(docs[id])
         /\ docs[id].deletedAt = "date"
         /\ last.op \in RankedReads \cup {"getBlogPosts"} )
         => id \notin last.data

====
